---- MODULE Spec2Model ----
(***************************************************************************)
(* ICP supply dashboard: the data-freshness / merge subsystem              *)
(* (src/src/data_refresh.py, class ICPDataRetriever) and the analysis run  *)
(* that calls it (src/app.py, load_and_process_data).                      *)
(*                                                                         *)
(* Time is in seconds.  `now` is the true Unix time; `tz` is the UTC       *)
(* offset of the process's local time zone.  A naive datetime is modelled  *)
(* by the number of seconds its wall-clock reading is after                *)
(* 1970-01-01 00:00:00, so that                                            *)
(*     datetime.utcnow()            = now                                  *)
(*     datetime.now()               = now + tz                             *)
(*     naive.timestamp()            = naive - tz   (naive read as local)   *)
(*     datetime.utcfromtimestamp(t) = t                                    *)
(* A calendar date 'YYYY-MM-DD' is modelled by its day number, and the     *)
(* lexicographic order of the strings by the order of the day numbers.     *)
(* A float column holds <<>> for NaN and <<v>> for the number v; a         *)
(* percentage holds <<>> for NaN and the reduced fraction <<n, d>>.        *)
(*                                                                         *)
(* Further specifications, each over its own variables with the others     *)
(* held at "not run":                                                      *)
(*     EnsembleSpec   the zero crossing predictions page (src/app.py,      *)
(*                    src/src/prediction_models.py)                        *)
(*     TrendSpec      the trend predictors on a loaded series              *)
(*     DateSpec       the date utilities (src/src/date_utils.py)           *)
(*     ProcessorSpec  the consumers of an upstream response                *)
(*                    (src/src/data_processor.py, data_refresh.py)         *)
(*     PredictorSpec  the period trends and the four zero crossing        *)
(*                    predictors on exact arithmetic, time in days         *)
(*                    (src/app.py, src/src/streamlit_utils.py,             *)
(*                    src/src/prediction_models.py)                        *)
(***************************************************************************)
EXTENDS Integers, Sequences, FiniteSets, TLC

(* ------------------------------------------------------------------ *)
(* Program constants                                                    *)
(* ------------------------------------------------------------------ *)
Hour == 3600
Day == 86400
StaleHours == 25
FallbackDays == 30
BootstrapDays == 730
\* rolling windows of the averaged supply change
ShortWindow == 7
LongWindow == 30

(* ------------------------------------------------------------------ *)
(* Bounds of the model                                                  *)
(* ------------------------------------------------------------------ *)
\* calendar days 1..MaxDay carry upstream points; the clock runs one day further
MaxDay == 2
\* most items in one upstream response
MaxResp == 2
\* most snapshot files kept in output_data
MaxFiles == 2

\* total supply values the upstream may report for a point
Supplies == {100, 103}
\* UTC offsets of the local time zone of the process
TZOffsets == {0 - Hour, 0, Hour}
\* times of day (UTC) at which the upstream may stamp a point
PointOffsets == {0, Hour}
\* times of day (UTC) at which the clock is observed
ClockOffsets == {0, Hour, Hour + 1}

PointTimes == {d * Day + o : d \in 1..MaxDay, o \in PointOffsets}
ClockTimes == {d * Day + o : d \in 1..(MaxDay + 1), o \in ClockOffsets}

(* ------------------------------------------------------------------ *)
(* Values                                                               *)
(* ------------------------------------------------------------------ *)
NaN == <<>>
Num(v) == <<v>>

Abs(x) == IF x < 0 THEN 0 - x ELSE x

RECURSIVE Gcd(_, _)
Gcd(a, b) == IF b = 0 THEN a ELSE Gcd(b, a % b)

\* the float n / d, as a fraction in lowest terms (d > 0)
Frac(n, d) ==
    LET g == Gcd(Abs(n), d)
    IN  <<n \div g, d \div g>>

\* datetime.utcfromtimestamp(timestamp).strftime('%Y-%m-%d')
DateOf(timestamp) == timestamp \div Day

Row(timestamp, total_supply, supply_change, supply_change_pct) ==
    [timestamp |-> timestamp,
     date |-> DateOf(timestamp),
     total_supply |-> total_supply,
     supply_change |-> supply_change,
     supply_change_pct |-> supply_change_pct]

Max(S) == CHOOSE x \in S : \A y \in S : y <= x

(* ------------------------------------------------------------------ *)
(* DataFrame operations                                                 *)
(* ------------------------------------------------------------------ *)
\* every place at which row r can be put into the date-sorted sequence t
InsertSorted(r, t) ==
    {SubSeq(t, 1, k) \o <<r>> \o SubSeq(t, k + 1, Len(t)) :
        k \in {j \in 0..Len(t) :
                  /\ \A i \in 1..j : t[i].date <= r.date
                  /\ \A i \in (j + 1)..Len(t) : r.date <= t[i].date}}

\* df.sort_values('date'): the default sort kind is quicksort, which is not
\* stable, so rows sharing a date may come out in any order
RECURSIVE SortValuesDate(_)
SortValuesDate(s) ==
    IF s = <<>> THEN {<<>>}
    ELSE UNION {InsertSorted(Head(s), t) : t \in SortValuesDate(Tail(s))}

\* df['supply_change'] = df['total_supply'].diff()
\* df['supply_change_pct'] = (df['supply_change'] / df['total_supply'].shift(1)) * 100
DiffColumns(s) ==
    [i \in 1..Len(s) |->
        IF i = 1
        THEN [s[i] EXCEPT !.supply_change = NaN, !.supply_change_pct = NaN]
        ELSE LET change == s[i].total_supply - s[i - 1].total_supply
             IN  [s[i] EXCEPT !.supply_change = Num(change),
                              !.supply_change_pct = Frac(100 * change, s[i - 1].total_supply)]]

\* df.loc[0, 'supply_change'] = 0 ; df.loc[0, 'supply_change_pct'] = 0
\* (also: df['supply_change'] = 0 ; df['supply_change_pct'] = 0 on a one-row frame)
ZeroFirstRow(s) ==
    [i \in 1..Len(s) |->
        IF i = 1
        THEN [s[i] EXCEPT !.supply_change = Num(0), !.supply_change_pct = Frac(0, 1)]
        ELSE s[i]]

(* ------------------------------------------------------------------ *)
(* The upstream ledger API                                              *)
(* ------------------------------------------------------------------ *)
\* one element of the JSON list: a [timestamp, value] pair, an element with
\* fewer than two entries, or an element the loop body raises on
PairItem(ts, v) == [tag |-> "pair", ts |-> ts, v |-> v]
ShortItem == [tag |-> "short", ts |-> 0, v |-> 0]
BadItem == [tag |-> "bad", ts |-> 0, v |-> 0]

PairItems(upto) ==
    {PairItem(ts, v) : ts \in {t \in PointTimes : t <= upto}, v \in Supplies}

\* the upstream series is ordered by timestamp, with no timestamp twice
Ascending(items) ==
    \A i, j \in 1..Len(items) : i < j => items[i].ts < items[j].ts

PairLists(upto) ==
    {items \in UNION {[1..n -> PairItems(upto)] : n \in 0..MaxResp} : Ascending(items)}

\* the lists of pairs, and those with one other element in front
ItemLists(upto) ==
    PairLists(upto)
        \cup {<<x>> \o items : x \in {ShortItem, BadItem},
                                items \in {l \in PairLists(upto) : Len(l) < MaxResp}}

\* what requests.get / raise_for_status / response.json() give:
\*   transport: a RequestException (connection error, timeout, non-2xx status)
\*   badjson:   a body that is not JSON
\*   object:    a JSON value that is not a list (an object with a series field, null)
\*   list:      a JSON list of items (the empty list: no data in range)
Responses(upto) ==
    {[kind |-> k, items |-> <<>>] : k \in {"transport", "badjson", "object"}}
        \cup {[kind |-> "list", items |-> items] : items \in ItemLists(upto)}

None(level) == [none |-> TRUE, rows |-> <<>>, msg |-> level]
Frame(rows) == [none |-> FALSE, rows |-> rows, msg |-> "none"]

\* the records list built by the loop over data
Records(items) ==
    LET pairs == SelectSeq(items, LAMBDA it : it.tag = "pair")
    IN  [i \in 1..Len(pairs) |-> Row(pairs[i].ts, pairs[i].v, Num(0), Frac(0, 1))]

\* the supply change columns of the fetched frame
FetchChanges(df) ==
    IF Len(df) > 1 THEN DiffColumns(df) ELSE ZeroFirstRow(df)

\* fetch_icp_supply_data: the set of values it may return for a response
FetchIcpSupplyData(resp) ==
    CASE resp.kind = "transport" -> {None("error")}
      [] resp.kind = "badjson" -> {None("error")}
      [] resp.kind = "object" -> {None("warning")}
      [] resp.kind = "list" /\ Len(resp.items) = 0 -> {None("warning")}
      [] OTHER ->
           IF \E i \in 1..Len(resp.items) : resp.items[i].tag = "bad"
           THEN {None("error")}
           ELSE IF Records(resp.items) = <<>>
           THEN {None("error")}
           ELSE {Frame(FetchChanges(df)) : df \in SortValuesDate(Records(resp.items))}

(* ------------------------------------------------------------------ *)
(* ICPDataRetriever                                                     *)
(* ------------------------------------------------------------------ *)
VARIABLES
    now,      \* the true Unix time
    tz,       \* UTC offset of the local time zone
    files,    \* the icp_supply_data_*.csv files of output_data, oldest write first
    pc,       \* where the analysis run is: "idle", "returned", "loaded"
    call,     \* what the refresh call of this run did
    report,   \* what the analysis run reported
    df_adj    \* the series load_and_process_data built from the snapshot

\* the zero crossing predictions page (app.py, prediction_models.py)
VARIABLES
    predictors,   \* what each of the four predictors is given and does
    epc,          \* where ensemble_zero_prediction is
    invoked,      \* the predictors called so far
    predictions,  \* the predictions dict
    shown         \* what show_ensemble_predictions displayed

\* the trend predictors on a loaded series (prediction_models.py)
VARIABLES
    series,         \* the rows of df_adj_sorted
    linear_result,  \* what predict_zero_crossing_linear returned
    ma_result       \* what predict_zero_from_moving_average returned

\* the date utilities (date_utils.py)
VARIABLES
    zone,         \* the local time zone of the process
    date_args,    \* the arguments of the call
    date_result   \* what the call returned or raised

\* the response processor (data_processor.py)
VARIABLES
    api_response,  \* the decoded upstream response
    processed,     \* what process_total_supply_series returned or raised
    debug_log      \* the points it printed a skip message for

\* the trend maps and the predictors on a loaded series (app.py,
\* streamlit_utils.py, prediction_models.py)
VARIABLES
    df_adj_sorted,     \* the frame load_and_process_data returned
    quarterly_trends,  \* its quarterly_trend_lines
    period_trends,     \* the monthly and yearly trends of calculate_all_trends
    pcall              \* the predictor call made, what it was given and gave

refreshVars == <<now, tz, files, pc, call, report, df_adj>>
ensembleVars == <<predictors, epc, invoked, predictions, shown>>
trendVars == <<series, linear_result, ma_result>>
dateVars == <<zone, date_args, date_result>>
processorVars == <<api_response, processed, debug_log>>
predictorVars == <<df_adj_sorted, quarterly_trends, period_trends, pcall>>

vars == <<refreshVars, ensembleVars, trendVars, dateVars, processorVars, predictorVars>>

\* the parts of the program a specification leaves out do not run in it
NotRun == "not run"
RefreshOff ==
    /\ now = Day /\ tz = 0 /\ files = <<>> /\ pc = NotRun
    /\ call = NotRun /\ report = NotRun /\ df_adj = NotRun
EnsembleOff ==
    /\ predictors = NotRun /\ epc = NotRun /\ invoked = {}
    /\ predictions = NotRun /\ shown = NotRun
TrendOff == series = NotRun /\ linear_result = NotRun /\ ma_result = NotRun
DateOff == zone = NotRun /\ date_args = NotRun /\ date_result = NotRun
ProcessorOff == api_response = NotRun /\ processed = NotRun /\ debug_log = NotRun
PredictorOff ==
    /\ df_adj_sorted = NotRun /\ quarterly_trends = NotRun
    /\ period_trends = NotRun /\ pcall = NotRun

\* datetime.utcnow(), datetime.now(), naive.timestamp()
UtcNow == now
LocalNow == now + tz
Timestamp(naive) == naive - tz

\* get_latest_csv_file: the file written last (0: None)
GetLatestCsvFile(fs) == Len(fs)

\* get_last_data_timestamp: the timestamp of the last row, None (0) when the
\* file cannot be read; both callers test the result for truth only
GetLastDataTimestamp(readOk, rows) ==
    IF ~readOk \/ Len(rows) = 0 THEN 0 ELSE rows[Len(rows)].timestamp

\* a needs_data_refresh that truncates the hours before comparing them
NeedsDataRefreshWholeHours(csv_path, last_timestamp, current_timestamp) ==
    IF csv_path = 0 THEN TRUE
    ELSE IF last_timestamp = 0 THEN TRUE
    ELSE ((current_timestamp - last_timestamp) \div Hour) > StaleHours

\* needs_data_refresh: hours_since_last = (current - last) / 3600 is a float
\* division, so hours_since_last > 25 iff current - last > 25 * 3600
NeedsDataRefresh(csv_path, last_timestamp, current_timestamp) ==
    IF csv_path = 0 THEN TRUE
    ELSE IF last_timestamp = 0 THEN TRUE
    ELSE (current_timestamp - last_timestamp) > StaleHours * Hour

\* int(datetime.utcnow().timestamp()): the naive UTC reading taken as local time
CurrentTimestamp == Timestamp(UtcNow)

\* a start_date that restarts at the last record instead of the day after it
StartDateNoNextDay(existing_csv, last_timestamp, local_now) ==
    IF existing_csv # 0
    THEN IF last_timestamp # 0
         THEN last_timestamp
         ELSE local_now - FallbackDays * Day
    ELSE local_now - BootstrapDays * Day

\* the start_date refresh_data_if_needed passes to fetch_icp_supply_data
StartDate(existing_csv, last_timestamp, local_now) ==
    IF existing_csv # 0
    THEN IF last_timestamp # 0
         THEN last_timestamp + Day
         ELSE local_now - FallbackDays * Day
    ELSE local_now - BootstrapDays * Day

\* a filter that keeps the incoming points of the last existing date too
NewRecordsFromLastDate(existing_df, new_data) ==
    LET last_existing_date == Max({existing_df[i].date : i \in 1..Len(existing_df)})
    IN  SelectSeq(new_data, LAMBDA r : r.date >= last_existing_date)

\* new_data[new_data['date_dt'] > last_existing_date]
NewRecords(existing_df, new_data) ==
    LET last_existing_date == Max({existing_df[i].date : i \in 1..Len(existing_df)})
    IN  SelectSeq(new_data, LAMBDA r : r.date > last_existing_date)

\* a merge in which the incoming points replace the existing rows they overlap
MergeOverwritingHistory(existing_df, new_data) ==
    LET first_new == new_data[1].date
        kept == SelectSeq(existing_df, LAMBDA r : r.date < first_new)
    IN  IF Len(NewRecords(existing_df, new_data)) = 0
        THEN {[path |-> "nonew", rows |-> existing_df]}
        ELSE {[path |-> "appended", rows |-> ZeroFirstRow(DiffColumns(combined_df))] :
                 combined_df \in SortValuesDate(kept \o new_data)}

\* the try block of merge_and_update_data: the frames it may return, with the
\* path taken
MergeAndUpdateData(existing_df, new_data) ==
    LET new_records == NewRecords(existing_df, new_data)
    IN  IF Len(new_records) = 0
        THEN {[path |-> "nonew", rows |-> existing_df]}
        ELSE {[path |-> "appended", rows |-> ZeroFirstRow(DiffColumns(combined_df))] :
                 combined_df \in SortValuesDate(existing_df \o new_records)}

\* save_updated_data, when df.to_csv succeeds: a new file, the latest. (The name
\* holds the date range and the time to the second; a save that meets its own
\* name again wrote the same rows under it, and is not told apart here.)
SaveUpdatedData(fs, df) == Append(fs, [rows |-> df])

NoCall ==
    [existing |-> 0, filesBefore |-> <<>>, last1 |-> 0, stale |-> FALSE,
     fetched |-> FALSE, last2 |-> 0, start_date |-> 0, end_date |-> 0,
     resp |-> [kind |-> "none", items |-> <<>>], new_data |-> None("none"),
     merge |-> "none", merge_existing |-> <<>>, merge_result |-> <<>>,
     save |-> "none", ret_path |-> 0, was_refreshed |-> FALSE]

\* no series built yet
NoFrame == None("none")

Init ==
    /\ now = Day
    /\ tz \in TZOffsets
    /\ files = <<>>
    /\ pc = "idle"
    /\ call = NoCall
    /\ report = "none"
    /\ df_adj = NoFrame
    /\ EnsembleOff /\ TrendOff /\ DateOff /\ ProcessorOff /\ PredictorOff

\* an up-to-date return that reports a refresh
UpToDateReportsRefresh(existing_csv) ==
    [path |-> existing_csv, was_refreshed |-> TRUE]

\* the data needs no refresh: return existing_csv, False
UpToDate(existing_csv) ==
    [path |-> existing_csv, was_refreshed |-> FALSE]

\* a refresh that reports a refresh although the fetch gave nothing
NoNewDataReportsRefresh(existing_csv) ==
    [path |-> existing_csv, was_refreshed |-> TRUE]

\* new_data is None or empty: return existing_csv, False / return None, False
NoNewData(existing_csv) ==
    [path |-> existing_csv, was_refreshed |-> FALSE]

\* refresh_data_if_needed returns (path, was_refreshed) with the files as fs
Return(c, fs, path, was_refreshed) ==
    /\ call' = [c EXCEPT !.ret_path = path, !.was_refreshed = was_refreshed]
    /\ files' = fs
    /\ pc' = "returned"
    /\ UNCHANGED <<now, tz, report, df_adj>>
    /\ UNCHANGED <<ensembleVars, trendVars, dateVars, processorVars, predictorVars>>

\* updated_csv = save_updated_data(df, existing_csv); return updated_csv, True
SaveAndReturn(c, df) ==
    \E saveOk \in BOOLEAN :
        IF saveOk
        THEN LET fs == SaveUpdatedData(files, df)
             IN  Return([c EXCEPT !.save = "written"], fs, Len(fs), TRUE)
        ELSE Return([c EXCEPT !.save = "failed"], files, c.existing, TRUE)

\* one call of refresh_data_if_needed (get_fresh_data), start to return
RefreshDataIfNeeded ==
    /\ pc = "idle"
    /\ LET existing_csv == GetLatestCsvFile(files)
           rows == IF existing_csv = 0 THEN <<>> ELSE files[existing_csv].rows
           Reads == IF existing_csv = 0 THEN {TRUE} ELSE BOOLEAN
       IN
       \E read1 \in Reads :
         LET last1 == GetLastDataTimestamp(read1, rows)
             stale == NeedsDataRefresh(existing_csv, last1, CurrentTimestamp)
             c0 == [NoCall EXCEPT !.existing = existing_csv, !.filesBefore = files,
                                  !.last1 = last1, !.stale = stale]
         IN
         IF ~stale
         THEN Return(c0, files, UpToDate(existing_csv).path,
                     UpToDate(existing_csv).was_refreshed)
         ELSE
           /\ Len(files) < MaxFiles
           /\ \E read2 \in Reads, resp \in Responses(now) :
             LET last2 == GetLastDataTimestamp(read2, rows)
                 c1 == [c0 EXCEPT !.fetched = TRUE, !.last2 = last2,
                                  !.start_date = StartDate(existing_csv, last2, LocalNow),
                                  !.end_date = LocalNow,
                                  !.resp = resp]
             IN
             \E new_data \in FetchIcpSupplyData(resp) :
               LET c2 == [c1 EXCEPT !.new_data = new_data]
               IN
               IF new_data.none \/ Len(new_data.rows) = 0
               THEN Return(c2, files, NoNewData(existing_csv).path,
                           NoNewData(existing_csv).was_refreshed)
               ELSE IF existing_csv = 0
               THEN SaveAndReturn(c2, new_data.rows)
               ELSE
                 \E read3 \in BOOLEAN :
                   IF read3
                   THEN \E m \in MergeAndUpdateData(rows, new_data.rows) :
                          SaveAndReturn([c2 EXCEPT !.merge = m.path,
                                                   !.merge_existing = rows,
                                                   !.merge_result = m.rows],
                                        m.rows)
                   ELSE \E read4 \in BOOLEAN :
                          IF read4
                          THEN SaveAndReturn([c2 EXCEPT !.merge = "error",
                                                        !.merge_existing = rows,
                                                        !.merge_result = rows],
                                             rows)
                          ELSE Return([c2 EXCEPT !.merge = "raised"],
                                      files, existing_csv, FALSE)

(* ------------------------------------------------------------------ *)
(* The analysis run (app.py)                                            *)
(* ------------------------------------------------------------------ *)
\* csv_file is None: "No data available", nothing is loaded
LoadReport(csv_file) == IF csv_file = 0 THEN "no_data" ELSE "loaded"

\* df.dropna(subset=['supply_change', 'supply_change_pct'])
DropNa(s) ==
    SelectSeq(s, LAMBDA r : r.supply_change # NaN /\ r.supply_change_pct # NaN)

\* the supply changes of rows lo..hi, added up by halves
RECURSIVE SumChange(_, _, _)
SumChange(s, lo, hi) ==
    IF lo > hi THEN 0
    ELSE IF lo = hi THEN s[lo].supply_change[1]
    ELSE LET mid == (lo + hi) \div 2
         IN  SumChange(s, lo, mid) + SumChange(s, mid + 1, hi)

\* df_adj['supply_change'].rolling(window=window).mean() at row i: undefined
\* until the window is full
RollingMean(s, i, window) ==
    IF i < window THEN NaN ELSE Frac(SumChange(s, i - window + 1, i), window)

\* the columns load_and_process_data adds to the rows it keeps. Supplies stay in
\* e8s: the division by 100_000_000 changes the unit of total_supply and
\* supply_change, and with it no date, no sign and no zero crossing
AddAverages(s) ==
    [i \in 1..Len(s) |->
        [timestamp |-> s[i].timestamp,
         date |-> s[i].date,
         total_supply |-> s[i].total_supply,
         supply_change |-> s[i].supply_change,
         supply_change_pct |-> s[i].supply_change_pct,
         change_7d_avg |-> RollingMean(s, i, ShortWindow),
         change_30d_avg |-> RollingMean(s, i, LongWindow)]]

\* stats.linregress(valid_data['date_numeric'], valid_data['supply_change']):
\* raises on no rows; on several rows of one date it raises or gives nan,
\* whichever the installed scipy does
LinregressRaises(s) ==
    IF Len(s) = 0 THEN {TRUE}
    ELSE IF Len(s) > 1 /\ \A i \in 1..Len(s) : s[i].date = s[1].date THEN BOOLEAN
    ELSE {FALSE}

\* load_and_process_data, after get_fresh_data has returned: the series it
\* returns (df_adj_sorted), None when there is no file or a step raises
LoadAndProcessData ==
    /\ pc = "returned"
    /\ pc' = "loaded"
    /\ IF call.ret_path = 0
       THEN /\ report' = LoadReport(call.ret_path)
            /\ df_adj' = None("error")
       ELSE \E readOk \in BOOLEAN :
              LET df == files[call.ret_path].rows
                  kept == AddAverages(DropNa(df))
              IN  IF ~readOk
                  THEN /\ report' = "error"
                       /\ df_adj' = None("error")
                  ELSE \E raises \in LinregressRaises(kept) :
                         IF raises
                         THEN /\ report' = "error"
                              /\ df_adj' = None("error")
                         ELSE /\ report' = LoadReport(call.ret_path)
                              /\ \E sorted \in SortValuesDate(kept) :
                                     df_adj' = Frame(sorted)
    /\ UNCHANGED <<now, tz, files, call>>
    /\ UNCHANGED <<ensembleVars, trendVars, dateVars, processorVars, predictorVars>>

\* the run ends; nothing of it is kept for the next run
FinishRun ==
    /\ pc = "loaded"
    /\ pc' = "idle"
    /\ call' = NoCall
    /\ report' = "none"
    /\ df_adj' = NoFrame
    /\ UNCHANGED <<now, tz, files>>
    /\ UNCHANGED <<ensembleVars, trendVars, dateVars, processorVars, predictorVars>>

\* time passes between runs
Tick ==
    /\ pc = "idle"
    /\ \E t \in ClockTimes : t > now /\ now' = t
    /\ UNCHANGED <<tz, files, pc, call, report, df_adj>>
    /\ UNCHANGED <<ensembleVars, trendVars, dateVars, processorVars, predictorVars>>

Next ==
    \/ RefreshDataIfNeeded
    \/ LoadAndProcessData
    \/ FinishRun
    \/ Tick

Spec == Init /\ [][Next]_vars

(* ------------------------------------------------------------------ *)
(* Properties                                                           *)
(* ------------------------------------------------------------------ *)
\* the refresh call of this run has returned
Returned == pc \in {"returned", "loaded"}

\* merge_and_update_data was called and returned a series
MergeReturned == Returned /\ call.merge \in {"appended", "nonew", "error"}

\* the rows of the snapshot the call found
ExistingRows == call.filesBefore[call.existing].rows

LastExistingDate == Max({ExistingRows[i].date : i \in 1..Len(ExistingRows)})

\* what identifies a point: its timestamp, date and total supply
Point(r) == <<r.timestamp, r.date, r.total_supply>>

Count(x, s) == Cardinality({i \in 1..Len(s) : Point(s[i]) = x})

Points(s) == {Point(s[i]) : i \in 1..Len(s)}

StrictlyAscendingDates(s) == \A i \in 2..Len(s) : s[i - 1].date < s[i].date

FirstDifferences(s) ==
    \A i \in 2..Len(s) :
        s[i].supply_change = Num(s[i].total_supply - s[i - 1].total_supply)

\* C1: every series a merge returns is strictly ascending by date, no two rows
\* share a date, and supply_change[i] = total_supply[i] - total_supply[i-1]
\* for every i > 0
C1_MergeStrictlySorted ==
    MergeReturned =>
        /\ StrictlyAscendingDates(call.merge_result)
        /\ FirstDifferences(call.merge_result)

\* a step of the refresh failed: the fetch ended in an error, or the merge did
RefreshStepFailed ==
    /\ Returned
    /\ call.fetched
    /\ \/ call.new_data.msg = "error"
       \/ call.merge \in {"error", "raised"}

\* C2: when a snapshot exists and a step of the refresh fails, the files are
\* as before and the call returns the existing path with was_refreshed = False
C2_FailureKeepsSnapshot ==
    (RefreshStepFailed /\ call.existing # 0) =>
        /\ files = call.filesBefore
        /\ call.ret_path = call.existing
        /\ call.was_refreshed = FALSE

\* no incoming point is dated after the last existing date
NoLaterPoint ==
    \A i \in 1..Len(call.new_data.rows) :
        call.new_data.rows[i].date <= LastExistingDate

\* C3: a merge whose incoming points are all dated on or before the last
\* existing date returns the existing snapshot, row for row
C3_MergeNoNewData ==
    (MergeReturned /\ NoLaterPoint) => call.merge_result = ExistingRows

C3_Witness ==
    /\ pc = "returned"
    /\ call.merge = "nonew"
    /\ Len(call.new_data.rows) > 0
    /\ NoLaterPoint
    /\ Len(ExistingRows) > 1

\* C4: the rows of the result dated on or before the last existing date are
\* the existing rows, each as often as before, with timestamp, date and total
\* supply unchanged: none is lost or altered, no overlapping point is added
C4_MergeKeepsHistory ==
    MergeReturned =>
        LET old == SelectSeq(call.merge_result, LAMBDA r : r.date <= LastExistingDate)
        IN  /\ Len(old) = Len(ExistingRows)
            /\ \A x \in Points(ExistingRows) \cup Points(old) :
                   Count(x, old) = Count(x, ExistingRows)

\* new rows were appended while the response also held a point of an existing
\* date with another total supply
C4_Witness ==
    /\ pc = "returned"
    /\ call.merge = "appended"
    /\ \E i \in 1..Len(call.new_data.rows) :
           /\ call.new_data.rows[i].date <= LastExistingDate
           /\ Point(call.new_data.rows[i]) \notin Points(ExistingRows)

\* C5: the first row of every series a merge returns has supply_change = 0
\* and supply_change_pct = 0
C5_MergeFirstRowZero ==
    MergeReturned =>
        /\ call.merge_result[1].supply_change = Num(0)
        /\ call.merge_result[1].supply_change_pct = Frac(0, 1)

\* C6: the snapshot the next run would load has one row per date, ascending
C6_SnapshotOneRowPerDate ==
    Len(files) > 0 => StrictlyAscendingDates(files[Len(files)].rows)

\* C7: with no snapshot and a fetch that gave nothing, the call returns no path
\* and was_refreshed = False, writes no file, and the run reports no data
C7_NoSnapshotFetchFails ==
    (Returned /\ call.fetched /\ call.existing = 0 /\ call.new_data.none) =>
        /\ call.ret_path = 0
        /\ call.was_refreshed = FALSE
        /\ files = <<>>
        /\ pc = "loaded" => report = "no_data"

C7_Witness ==
    /\ pc = "loaded"
    /\ call.fetched
    /\ call.existing = 0
    /\ call.resp.kind = "transport"
    /\ call.new_data.none
    /\ report = "no_data"

Value(r) == [none |-> r.none, rows |-> r.rows]

NoDataInRange == [kind |-> "list", items |-> <<>>]

\* C10: what fetch_icp_supply_data returns on a transport failure differs from
\* what it returns when the upstream reports no data in range
C10_NoDataDistinctFromFailure ==
    (Returned /\ call.fetched /\ call.resp.kind = "transport") =>
        \A r \in FetchIcpSupplyData(NoDataInRange) :
            Value(call.new_data) # Value(r)

\* the run loaded a snapshot and built its series
SeriesBuilt == pc = "loaded" /\ call.ret_path # 0 /\ ~df_adj.none

\* the snapshot the run loaded
LoadedRows == files[call.ret_path].rows

\* C20: the series the analysis run builds from a snapshot holds a record for
\* the first date of the snapshot, its change zero or undefined
C20_FirstRecordKept ==
    SeriesBuilt =>
        \E i \in 1..Len(df_adj.rows) :
            /\ df_adj.rows[i].date = LoadedRows[1].date
            /\ df_adj.rows[i].supply_change \in {Num(0), NaN}

\* the records of the snapshot the call returned, and of the one it found
ReturnedPoints ==
    IF call.ret_path = 0 THEN {} ELSE Points(files[call.ret_path].rows)
FoundPoints ==
    IF call.existing = 0 THEN {} ELSE Points(ExistingRows)

\* C28: a call returns was_refreshed = True only with a snapshot holding a
\* record the snapshot it found did not hold; after a merge that found no new
\* record or failed, it returns False and the files are as before
C28_RefreshedOnlyWithNewRecord ==
    Returned =>
        /\ call.was_refreshed => ReturnedPoints \ FoundPoints # {}
        /\ call.merge \in {"nonew", "error", "raised"} =>
               /\ call.was_refreshed = FALSE
               /\ files = call.filesBefore

\* the snapshot found can be read and its last record is at most 25 hours old
FoundFresh ==
    /\ call.existing # 0
    /\ call.last1 # 0
    /\ CurrentTimestamp - call.last1 <= StaleHours * Hour

\* C29: a call that finds a snapshot that is not stale fetches nothing, leaves
\* the files as they are and returns the path it found with was_refreshed = False
C29_FreshSnapshotUntouched ==
    (Returned /\ FoundFresh) =>
        /\ call.fetched = FALSE
        /\ files = call.filesBefore
        /\ call.ret_path = call.existing
        /\ call.was_refreshed = FALSE

\* a call returned on a snapshot whose last record is less than 25 hours old
C29_Witness ==
    /\ pc = "returned"
    /\ FoundFresh
    /\ Len(ExistingRows) > 1
    /\ call.ret_path = call.existing

(* ------------------------------------------------------------------ *)
(* Zero crossing predictions (prediction_models.py, app.py)             *)
(*                                                                      *)
(* On this page a time is a whole number of minutes since the epoch: a  *)
(* pd.Timestamp is modelled by its minute, a pd.Timedelta by its length *)
(* in minutes.                                                          *)
(* ------------------------------------------------------------------ *)
MinutesPerDay == 1440
\* 365.25 days, times four
DaysPerYearX4 == 1461
\* pd.Timestamp.max (2262-04-11 23:47), the last minute pd.to_datetime accepts
TimestampMax == 153722867

\* 365.25 days
YearMinutes == (DaysPerYearX4 * MinutesPerDay) \div 4

\* what a predictor call does: it returns a date, returns None with a message,
\* or raises
Success(date) == [kind |-> "ok", date |-> date]
Failure == [kind |-> "fail", date |-> 0]
Raised == [kind |-> "raise", date |-> 0]

\* pd.to_datetime(x, unit='s'): OutOfBoundsDatetime beyond the Timestamp range
ToDatetime(x) ==
    IF x > TimestampMax \/ x < 0 - TimestampMax THEN Raised ELSE Success(x)

\* predict_zero_crossing_linear, on a slope and an intercept whose quotient is
\* a whole number of minutes
PredictZeroCrossingLinear(slope, intercept) ==
    IF slope >= 0 THEN Failure
    ELSE ToDatetime(intercept \div (0 - slope))

\* the dates the predictors may give: a base date and the dates 0.4, 0.5, 0.6,
\* 1, 1.5, 2 and 3 years after it
SpreadTenths == {0, 4, 5, 6, 10, 15, 20, 30}
BaseDate == 60 * YearMinutes
PredictedDates == {BaseDate + (t * YearMinutes) \div 10 : t \in SpreadTenths}

\* the overall fit handed to the linear predictor: a falling line through zero
\* at a predicted date, at the last representable minute or right after it, a
\* steep line through zero at T0, a flat line, a rising line
SteepSlope == 0 - 100000
SteepT0 == {0, MinutesPerDay, 21000}
Fits ==
    {[slope |-> 0 - 1, intercept |-> d] :
        d \in PredictedDates \cup {TimestampMax, TimestampMax + 1}}
      \cup {[slope |-> SteepSlope, intercept |-> (0 - SteepSlope) * t] : t \in SteepT0}
      \cup {[slope |-> 0, intercept |-> MinutesPerDay],
            [slope |-> 1, intercept |-> 0 - BaseDate]}

Outcomes == {Success(d) : d \in PredictedDates} \cup {Failure, Raised}

Methods == {"linear", "quarterly", "moving_average", "acceleration"}

EnsembleInit ==
    /\ predictors \in [linear : Fits, quarterly : Outcomes,
                       moving_average : Outcomes, acceleration : Outcomes]
    /\ epc = "linear"
    /\ invoked = {}
    /\ predictions = <<>>
    /\ shown = "nothing"
    /\ RefreshOff /\ TrendOff /\ DateOff /\ ProcessorOff /\ PredictorOff

\* what the call of predictor m gives
Result(m) ==
    IF m = "linear"
    THEN PredictZeroCrossingLinear(predictors.linear.slope, predictors.linear.intercept)
    ELSE predictors[m]

\* if result: predictions[m] = <its date>
Collect(preds, m, result) ==
    IF result.kind = "ok" THEN (m :> result.date) @@ preds ELSE preds

\* a try block that lets the exception of its predictor through
AfterTryPropagating(result, next) ==
    IF result.kind = "raise" THEN "raised" ELSE next

\* try: ... except Exception: pass -- the next statement runs whatever the
\* predictor did
AfterTry(result, next) == next

\* one try block of ensemble_zero_prediction
TryMethod(m, next) ==
    /\ epc = m
    /\ invoked' = invoked \cup {m}
    /\ predictions' = Collect(predictions, m, Result(m))
    /\ epc' = AfterTry(Result(m), next)
    /\ UNCHANGED <<predictors, shown>>
    /\ UNCHANGED <<refreshVars, trendVars, dateVars, processorVars, predictorVars>>

Method1Linear == TryMethod("linear", "quarterly")
Method2Quarterly == TryMethod("quarterly", "moving_average")
Method3MovingAverage == TryMethod("moving_average", "acceleration")
Method4Acceleration == TryMethod("acceleration", "returned")

Min(S) == CHOOSE x \in S : \A y \in S : x <= y

PredDates(preds) == {preds[m] : m \in DOMAIN preds}

\* (max(pred_dates) - min(pred_dates)).days
SpreadDays(preds) ==
    (Max(PredDates(preds)) - Min(PredDates(preds))) \div MinutesPerDay

\* spread_years = days / 365.25 against 0.5, 1.0 and 2.0
Confidence(preds) ==
    LET days == SpreadDays(preds)
    IN  IF 8 * days < DaysPerYearX4 THEN "high"
        ELSE IF 4 * days < DaysPerYearX4 THEN "moderate"
        ELSE IF 2 * days < DaysPerYearX4 THEN "low"
        ELSE "very low"

RECURSIVE SumOver(_, _)
SumOver(preds, ms) ==
    IF ms = {} THEN 0
    ELSE LET m == CHOOSE x \in ms : TRUE IN preds[m] + SumOver(preds, ms \ {m})

\* a page that goes on to the results with an empty predictions dict
ShowResultEmptySuccess(preds) ==
    [status |-> "success", count |-> Cardinality(DOMAIN preds),
     confidence |-> "high", earliest |-> 0, latest |-> 0, average |-> NaN]

\* if not predictions: st.error(...); return -- else the results
ShowResult(preds) ==
    IF DOMAIN preds = {}
    THEN [status |-> "no valid predictions", count |-> 0, confidence |-> "none",
          earliest |-> 0, latest |-> 0, average |-> NaN]
    ELSE [status |-> "success",
          count |-> Cardinality(DOMAIN preds),
          confidence |-> Confidence(preds),
          earliest |-> Min(PredDates(preds)),
          latest |-> Max(PredDates(preds)),
          average |-> Frac(SumOver(preds, DOMAIN preds), Cardinality(DOMAIN preds))]

\* show_ensemble_predictions, after ensemble_zero_prediction has returned
ShowEnsemblePredictions ==
    /\ epc = "returned"
    /\ shown' = ShowResult(predictions)
    /\ epc' = "shown"
    /\ UNCHANGED <<predictors, invoked, predictions>>
    /\ UNCHANGED <<refreshVars, trendVars, dateVars, processorVars, predictorVars>>

EnsembleNext ==
    \/ Method1Linear
    \/ Method2Quarterly
    \/ Method3MovingAverage
    \/ Method4Acceleration
    \/ ShowEnsemblePredictions

EnsembleSpec == EnsembleInit /\ [][EnsembleNext]_vars

(* ------------------------------------------------------------------ *)
(* Properties of the predictions page                                   *)
(* ------------------------------------------------------------------ *)
EnsembleReturned == epc \in {"returned", "shown"}

\* the predictors whose call gives a date
Succeeded == {m \in Methods : Result(m).kind = "ok"}

\* C11: whatever each predictor does, ensemble_zero_prediction does not raise,
\* calls all four, and returns a dict whose keys are the predictors that gave a
\* date, each with its own date
C11_EnsembleIsolatesPredictors ==
    /\ epc # "raised"
    /\ EnsembleReturned =>
           /\ invoked = Methods
           /\ DOMAIN predictions = Succeeded
           /\ \A m \in Succeeded : predictions[m] = Result(m).date

\* the first predictor raised, the second gave None, the last two gave dates
C11_Witness ==
    /\ epc = "returned"
    /\ Result("linear").kind = "raise"
    /\ predictors.quarterly.kind = "fail"
    /\ DOMAIN predictions = {"moving_average", "acceleration"}
    /\ predictions.moving_average # predictions.acceleration

\* C12: the page reports that no valid prediction could be made exactly when
\* no predictor gave a date, and shows results when at least one did
C12_NoPredictionsIsFailure ==
    epc = "shown" =>
        /\ Succeeded = {} => shown.status = "no valid predictions" /\ shown.count = 0
        /\ Succeeded # {} =>
               shown.status = "success" /\ shown.count = Cardinality(Succeeded)

C12_Witness ==
    /\ epc = "shown"
    /\ Succeeded = {}
    /\ \E m \in Methods : Result(m).kind = "raise"
    /\ \E m \in Methods : Result(m).kind = "fail"
    /\ shown.status = "no valid predictions"

\* the tier of the claim: spread = (latest - earliest) / 365.25 days, in years
TierOfSpread(minutes) ==
    IF 2 * minutes < YearMinutes THEN "high"
    ELSE IF minutes < YearMinutes THEN "moderate"
    ELSE IF minutes < 2 * YearMinutes THEN "low"
    ELSE "very low"

\* C13: the confidence shown is high iff spread < 0.5, moderate iff
\* 0.5 <= spread < 1, low iff 1 <= spread < 2, very low iff spread >= 2, with
\* spread = (latest - earliest) / 365.25 in years
C13_ConfidenceBySpread ==
    (epc = "shown" /\ shown.status = "success") =>
        shown.confidence = TierOfSpread(shown.latest - shown.earliest)

\* C14: predict_zero_crossing_linear gives the date at -intercept / slope for
\* every slope < 0, and a failure value, neither a date nor an exception, for
\* every slope >= 0
C14_LinearCrossing ==
    "linear" \in invoked =>
        LET fit == predictors.linear
            result == Result("linear")
        IN  IF fit.slope < 0
            THEN /\ result.kind = "ok"
                 /\ result.date * (0 - fit.slope) = fit.intercept
                 /\ predictions.linear = result.date
            ELSE /\ result.kind = "fail"
                 /\ "linear" \notin DOMAIN predictions

(* ------------------------------------------------------------------ *)
(* The trend predictors on a loaded series (prediction_models.py)       *)
(*                                                                      *)
(* date_numeric is taken in days (the day number of the date); a fitted *)
(* line is handed on over minutes and multiplied by a positive factor   *)
(* that makes its slope and intercept whole, which leaves the sign of   *)
(* the slope and the zero crossing -intercept / slope as they are.      *)
(* ------------------------------------------------------------------ *)
\* days of the synthetic series
SeriesDays == 100
\* fewest rows with a rolling average the moving average predictor accepts
MinValidRecent == 10

\* the daily change falls by `rate` a day and would reach zero on day `cross`
Rates == {1, 2, 3}
CrossDays == 110..121

\* total supply of day `day`: 100000 on day 1, then the daily changes
\* rate * (cross - day) added up
TotalOn(rate, cross, day) ==
    100000 + rate * (cross * (day - 1) - ((day * (day + 1)) \div 2 - 1))

\* the snapshot of the series, as fetch_icp_supply_data builds it
SnapshotRows(rate, cross) ==
    DiffColumns([day \in 1..SeriesDays |->
                    Row(day * Day, TotalOn(rate, cross, day), Num(0), Frac(0, 1))])

\* df_adj_sorted of that snapshot
LoadedSeries(rate, cross) == AddAverages(DropNa(SnapshotRows(rate, cross)))

\* f[lo] + ... + f[hi], added up by halves
RECURSIVE SumFromTo(_, _, _)
SumFromTo(f, lo, hi) ==
    IF lo > hi THEN 0
    ELSE IF lo = hi THEN f[lo]
    ELSE LET mid == (lo + hi) \div 2
         IN  SumFromTo(f, lo, mid) + SumFromTo(f, mid + 1, hi)

SumTo(f, n) == SumFromTo(f, 1, n)

\* stats.linregress(x, y) on whole numbers: slope = Sxy / Sxx, intercept =
\* mean(y) - slope * mean(x); returned as the line times n * (denominator of
\* the slope), over minutes
Linregress(x, y) ==
    LET n == Len(x)
        sx == SumTo(x, n)
        sy == SumTo(y, n)
        Sxy == SumTo([i \in 1..n |-> (n * x[i] - sx) * y[i]], n)
        Sxx == SumTo([i \in 1..n |-> (n * x[i] - sx) * x[i]], n)
        slope == Frac(Sxy, Sxx)
    IN  [slope |-> n * slope[1],
         intercept |-> MinutesPerDay * (sy * slope[2] - slope[1] * sx)]

\* the overall trend of load_and_process_data
OverallFit(df) ==
    Linregress([i \in 1..Len(df) |-> df[i].date],
               [i \in 1..Len(df) |-> df[i].supply_change[1]])

\* df.tail(n)
TailRows(df, n) ==
    IF Len(df) <= n THEN df ELSE SubSeq(df, Len(df) - n + 1, Len(df))

\* predict_zero_from_moving_average(df_adj_sorted, window); the averages are
\* taken over their common denominator, the window
PredictZeroFromMovingAverage(df, window) ==
    LET recent_data == TailRows(df, window * 2)
        valid_recent == SelectSeq(recent_data, LAMBDA r : r.change_30d_avg # NaN)
        fit == Linregress(
                   [i \in 1..Len(valid_recent) |-> valid_recent[i].date],
                   [i \in 1..Len(valid_recent) |->
                       valid_recent[i].change_30d_avg[1]
                           * (window \div valid_recent[i].change_30d_avg[2])])
    IN  IF Len(valid_recent) < MinValidRecent THEN Failure
        ELSE IF fit.slope >= 0 THEN Failure
        ELSE ToDatetime(fit.intercept \div (0 - fit.slope))

NotCalled == [kind |-> "not called", date |-> 0]

TrendInit ==
    /\ \E rate \in Rates, cross \in CrossDays : series = LoadedSeries(rate, cross)
    /\ linear_result = NotCalled
    /\ ma_result = NotCalled
    /\ RefreshOff /\ EnsembleOff /\ DateOff /\ ProcessorOff /\ PredictorOff

\* predict_zero_crossing_linear on the overall fit of the series
CallLinear ==
    /\ linear_result = NotCalled
    /\ linear_result' =
           PredictZeroCrossingLinear(OverallFit(series).slope, OverallFit(series).intercept)
    /\ UNCHANGED <<series, ma_result>>
    /\ UNCHANGED <<refreshVars, ensembleVars, dateVars, processorVars, predictorVars>>

\* predict_zero_from_moving_average on the series
CallMovingAverage ==
    /\ ma_result = NotCalled
    /\ ma_result' = PredictZeroFromMovingAverage(series, LongWindow)
    /\ UNCHANGED <<series, linear_result>>
    /\ UNCHANGED <<refreshVars, ensembleVars, dateVars, processorVars, predictorVars>>

TrendNext == CallLinear \/ CallMovingAverage

TrendSpec == TrendInit /\ [][TrendNext]_vars

\* the changes of the series fall by the same amount every day and stay above zero
FallsLinearly(df) ==
    /\ \A i \in 1..Len(df) : df[i].supply_change[1] > 0
    /\ \A i \in 2..Len(df) :
           /\ df[i].date = df[i - 1].date + 1
           /\ df[i].supply_change[1] - df[i - 1].supply_change[1]
                  = df[2].supply_change[1] - df[1].supply_change[1]
           /\ df[i].supply_change[1] < df[i - 1].supply_change[1]

\* C15: on a series whose daily change falls at a constant rate toward zero,
\* the overall linear and the moving average predictor both give a date, and
\* the two dates are at most one day apart
C15_LinearAndMovingAverageAgree ==
    (linear_result # NotCalled /\ ma_result # NotCalled /\ FallsLinearly(series)) =>
        /\ linear_result.kind = "ok"
        /\ ma_result.kind = "ok"
        /\ Abs(linear_result.date - ma_result.date) <= MinutesPerDay

(* ------------------------------------------------------------------ *)
(* Date utilities (date_utils.py)                                       *)
(*                                                                      *)
(* Seconds are counted from 0001-01-01 00:00:00 UTC, the first moment   *)
(* datetime can hold, instead of from the epoch; a date is the number   *)
(* of its day, day 0 being 0001-01-01.  The local time zone has a base  *)
(* UTC offset and at most one transition, at the instant `at`, after    *)
(* which the offset is larger by `shift`.                               *)
(* ------------------------------------------------------------------ *)
\* the dates that can be asked for: day 0 and the days FirstDate..MaxDate, which
\* are far enough from day 0 for no probe of a conversion to fall before it
FirstDate == 3
MaxDate == 5
Dates == {0} \cup FirstDate..MaxDate

\* how far apart the two readings of one wall-clock time can be
MaxFoldSeconds == 24 * Hour

\* changes of the UTC offset at a transition: none, summer time on and off, a
\* calendar day left out (as Pacific/Apia did on 2011-12-30)
Shifts == {0, Hour, 0 - Hour, Day}
TransitionTimes ==
    {d * Day + h * Hour : d \in (FirstDate + 1)..MaxDate, h \in {0 - 1, 0, 1}}
Zones == [base : TZOffsets, at : TransitionTimes, shift : Shifts]

\* date strings: 'YYYY-MM-DD' of a day, the same day without the leading
\* zeros ('2025-9-9'), or text strptime cannot parse
DateStr(day) == [form |-> "padded", day |-> day]
Unpadded(day) == [form |-> "unpadded", day |-> day]
Unparseable == [form |-> "unparseable", day |-> 0]
DateStrings ==
    {DateStr(d) : d \in Dates} \cup {Unpadded(d) : d \in Dates} \cup {Unparseable}

Returns(v) == [raised |-> "none", value |-> v]
Raises(e) == [raised |-> e, value |-> <<>>]

\* the UTC offset of the zone z at the instant u
UtcOffset(z, u) == IF u >= z.at THEN z.base + z.shift ELSE z.base

\* time.localtime(u) as wall-clock seconds; before 0001-01-01 it is out of range
Local(z, u) ==
    LET w == u + UtcOffset(z, u)
    IN  IF w < 0 THEN Raises("ValueError") ELSE Returns(w)

\* naive.timestamp() for the wall-clock reading t with fold = 0: solve
\* t = local(u) for u, trying the offset at t and the one a day earlier
LocalToSeconds(z, t) ==
    LET lt == Local(z, t)
        a == lt.value - t
        u1 == t - a
        lt1 == Local(z, u1)
        t1 == lt1.value
        probe == u1 - MaxFoldSeconds
        lp == Local(z, probe)
        bSame == lp.value - probe
        b == IF t1 = t THEN bSame ELSE t1 - u1
        u2 == t - b
        lt2 == Local(z, u2)
    IN  IF lt.raised # "none" THEN lt
        ELSE IF lt1.raised # "none" THEN lt1
        ELSE IF t1 = t /\ lp.raised # "none" THEN lp
        ELSE IF t1 = t /\ a = bSame THEN Returns(u1)
        ELSE IF lt2.raised # "none" THEN lt2
        ELSE IF lt2.value = t THEN Returns(u2)
        ELSE IF t1 = t THEN Returns(u1)
        ELSE Returns(IF u1 >= u2 THEN u1 ELSE u2)

\* datetime.strptime(date_str, '%Y-%m-%d')
Strptime(date_str) ==
    IF date_str.form = "unparseable" THEN Raises("ValueError")
    ELSE Returns(date_str.day * Day)

\* date_to_timestamp: a ValueError of either step is raised again as ValueError
DateToTimestamp(z, date_str) ==
    LET date_obj == Strptime(date_str)
    IN  IF date_obj.raised # "none" THEN Raises("ValueError")
        ELSE LocalToSeconds(z, date_obj.value)

\* timestamp_to_date: datetime.fromtimestamp(timestamp).strftime('%Y-%m-%d')
TimestampToDate(z, timestamp) ==
    LET date_obj == Local(z, timestamp)
    IN  IF date_obj.raised # "none" THEN date_obj
        ELSE Returns(DateStr(date_obj.value \div Day))

\* validate_date_range
ValidateDateRange(z, start_date, end_date) ==
    LET start_ts == DateToTimestamp(z, start_date)
        end_ts == DateToTimestamp(z, end_date)
    IN  IF start_ts.raised # "none" THEN start_ts
        ELSE IF end_ts.raised # "none" THEN end_ts
        ELSE IF start_ts.value >= end_ts.value THEN Raises("ValueError")
        ELSE Returns(<<start_date, end_date>>)

NoDateCall == [fn |-> "none", args |-> <<>>]

DateInit ==
    /\ zone \in Zones
    /\ date_args = NoDateCall
    /\ date_result = Returns(<<>>)
    /\ RefreshOff /\ EnsembleOff /\ TrendOff /\ ProcessorOff /\ PredictorOff

\* date_to_timestamp(date_str)
CallDateToTimestamp ==
    /\ date_args.fn = "none"
    /\ \E date_str \in DateStrings :
         /\ date_args' = [fn |-> "date_to_timestamp", args |-> <<date_str>>]
         /\ date_result' = DateToTimestamp(zone, date_str)
    /\ UNCHANGED zone
    /\ UNCHANGED <<refreshVars, ensembleVars, trendVars, processorVars, predictorVars>>

\* timestamp_to_date(timestamp), on the timestamp date_to_timestamp returned
CallTimestampToDate ==
    /\ date_args.fn = "date_to_timestamp"
    /\ date_result.raised = "none"
    /\ date_args' = [fn |-> "timestamp_to_date",
                     args |-> <<date_result.value, date_args.args[1]>>]
    /\ date_result' = TimestampToDate(zone, date_result.value)
    /\ UNCHANGED zone
    /\ UNCHANGED <<refreshVars, ensembleVars, trendVars, processorVars, predictorVars>>

\* validate_date_range(start_date, end_date)
CallValidateDateRange ==
    /\ date_args.fn = "none"
    /\ \E start_date \in DateStrings, end_date \in DateStrings :
         /\ date_args' = [fn |-> "validate_date_range", args |-> <<start_date, end_date>>]
         /\ date_result' = ValidateDateRange(zone, start_date, end_date)
    /\ UNCHANGED zone
    /\ UNCHANGED <<refreshVars, ensembleVars, trendVars, processorVars, predictorVars>>

DateNext ==
    \/ CallDateToTimestamp
    \/ CallTimestampToDate
    \/ CallValidateDateRange

DateSpec == DateInit /\ [][DateNext]_vars

(* ------------------------------------------------------------------ *)
(* Properties of the date utilities                                     *)
(* ------------------------------------------------------------------ *)
Parseable(date_str) == date_str.form # "unparseable"

\* C16: validate_date_range raises ValueError for every pair with an
\* unparseable date or with start not strictly before end, and returns every
\* other pair as it was given
C16_ValidateDateRange ==
    date_args.fn = "validate_date_range" =>
        LET start_date == date_args.args[1]
            end_date == date_args.args[2]
        IN  IF /\ Parseable(start_date)
               /\ Parseable(end_date)
               /\ start_date.day < end_date.day
            THEN date_result = Returns(<<start_date, end_date>>)
            ELSE date_result.raised = "ValueError"

\* C17: for every valid 'YYYY-MM-DD' date d, date_to_timestamp(d) is a
\* timestamp and timestamp_to_date of it is d
C17_DateRoundTrip ==
    /\ (date_args.fn = "date_to_timestamp" /\ date_args.args[1].form = "padded") =>
           date_result.raised = "none"
    /\ (date_args.fn = "timestamp_to_date" /\ date_args.args[2].form = "padded") =>
           date_result = Returns(date_args.args[2])

(* ------------------------------------------------------------------ *)
(* The consumers of an upstream response (data_processor.py,            *)
(* data_refresh.py)                                                     *)
(*                                                                      *)
(* Timestamps and the local zone are those of the date utilities.      *)
(* ------------------------------------------------------------------ *)
\* the longest series in a response
MaxPoints == 2

\* a JSON value in the place of a timestamp or of a supply value: a number,
\* null (or the field is not there), text, a number whose year is past 9999
\* (a timestamp in milliseconds), a number past the platform's time_t
Number(n) == [kind |-> "number", n |-> n]
Null == [kind |-> "null", n |-> 0]
Text == [kind |-> "text", n |-> 0]
YearOutOfRange == [kind |-> "year out of range", n |-> 0]
TimeTOverflow == [kind |-> "time_t overflow", n |-> 0]

SeriesTimes == {FirstDate * Day, (FirstDate + 1) * Day}
TimestampValues ==
    {Number(t) : t \in SeriesTimes} \cup {Null, Text, YearOutOfRange, TimeTOverflow}
SupplyValues == {Number(v) : v \in Supplies} \cup {Null, Text}

\* a data point: a [timestamp, value] list, an object with a timestamp field
\* and a value field (null: the field is not there), a list of fewer than
\* two entries, or a bare number
DataPoint(shape, timestamp, supply_value) ==
    [shape |-> shape, timestamp |-> timestamp, supply_value |-> supply_value]
DataPoints ==
    {DataPoint(shape, timestamp, supply_value) :
        shape \in {"list", "dict"},
        timestamp \in TimestampValues,
        supply_value \in SupplyValues}
        \cup {DataPoint(shape, Null, Null) : shape \in {"short list", "number"}}

\* a decoded response: a list of data points, an object with a series field
\* holding that list, or another object
ApiResponse(shape, series_data) == [shape |-> shape, series |-> series_data]
ApiResponses ==
    {ApiResponse(shape, series_data) :
        shape \in {"list", "dict with series", "other"},
        series_data \in UNION {[1..n -> DataPoints] : n \in 0..MaxPoints}}

\* zones without a transition in the time of the series
SteadyZones == {z \in Zones : z.shift = 0 /\ z.at = Max(TransitionTimes)}

Appended(row) == [step |-> "append", row |-> row, error |-> "none"]
Skipped == [step |-> "skip", row |-> <<>>, error |-> "none"]
Printed(e) == [step |-> "print", row |-> <<>>, error |-> e]
Escaped(e) == [step |-> "raise", row |-> <<>>, error |-> e]

\* the body of the loop over series_data for one data point
ProcessDataPoint(z, data_point) ==
    LET known == data_point.shape \in {"list", "dict"}
        timestamp == IF known THEN data_point.timestamp ELSE Null
        supply_value == IF known THEN data_point.supply_value ELSE Null
        date_str == TimestampToDate(z, timestamp.n)
    IN  IF timestamp.kind = "null" \/ supply_value.kind = "null" THEN Skipped
        ELSE IF timestamp.kind = "text" THEN Printed("TypeError")
        ELSE IF timestamp.kind = "year out of range" THEN Printed("ValueError")
        ELSE IF timestamp.kind = "time_t overflow" THEN Escaped("OverflowError")
        ELSE IF date_str.raised # "none" THEN Printed(date_str.raised)
        ELSE IF supply_value.kind = "text" THEN Printed("ValueError")
        ELSE Appended([timestamp |-> timestamp.n,
                       date |-> date_str.value,
                       total_supply |-> supply_value.n])

\* the loop over series_data from the i-th data point on: processed_data,
\* the lines printed, and the exception that ended it
RECURSIVE ProcessSeriesData(_, _, _)
ProcessSeriesData(z, series_data, i) ==
    IF i > Len(series_data)
    THEN [processed_data |-> <<>>, printed |-> <<>>, raised |-> "none"]
    ELSE LET data_point == series_data[i]
             this == ProcessDataPoint(z, data_point)
             rest == ProcessSeriesData(z, series_data, i + 1)
         IN  CASE this.step = "raise" ->
                    [processed_data |-> <<>>, printed |-> <<>>, raised |-> this.error]
               [] this.step = "append" ->
                    [rest EXCEPT !.processed_data = <<this.row>> \o @]
               [] this.step = "print" ->
                    [rest EXCEPT !.printed =
                         <<[data_point |-> data_point, error |-> this.error]>> \o @]
               [] OTHER -> rest

\* every place at which row r can be put into the timestamp-sorted sequence t
InsertByTimestamp(r, t) ==
    {SubSeq(t, 1, k) \o <<r>> \o SubSeq(t, k + 1, Len(t)) :
        k \in {j \in 0..Len(t) :
                  /\ \A i \in 1..j : t[i].timestamp <= r.timestamp
                  /\ \A i \in (j + 1)..Len(t) : r.timestamp <= t[i].timestamp}}

\* df.sort_values('timestamp').reset_index(drop=True)
RECURSIVE SortValuesTimestamp(_)
SortValuesTimestamp(s) ==
    IF s = <<>> THEN {<<>>}
    ELSE UNION {InsertByTimestamp(Head(s), t) : t \in SortValuesTimestamp(Tail(s))}

Outcome(result, printed) == [result |-> result, printed |-> printed]

\* process_total_supply_series: the outcomes it may have for a response
ProcessTotalSupplySeries(z, response) ==
    LET series_data == response.series
        loop == ProcessSeriesData(z, series_data, 1)
    IN  IF response.shape = "other" THEN {Outcome(Raises("ValueError"), <<>>)}
        ELSE IF series_data = <<>> THEN {Outcome(Raises("ValueError"), <<>>)}
        ELSE IF loop.raised # "none" THEN {Outcome(Raises(loop.raised), loop.printed)}
        ELSE IF loop.processed_data = <<>>
        THEN {Outcome(Raises("ValueError"), loop.printed)}
        ELSE {Outcome(Returns(df), loop.printed) :
                 df \in SortValuesTimestamp(loop.processed_data)}

\* how the loop of fetch_icp_supply_data takes a data point: an object with
\* both fields has length 2 and no entry 0; a bare number has no length
AsItem(data_point) ==
    LET timestamp == data_point.timestamp
        supply_value == data_point.supply_value
    IN  CASE data_point.shape = "short list" -> ShortItem
          [] data_point.shape = "number" -> BadItem
          [] data_point.shape = "dict" ->
               IF timestamp.kind # "null" /\ supply_value.kind # "null"
               THEN BadItem ELSE ShortItem
          [] OTHER ->
               IF timestamp.kind = "number" /\ supply_value.kind = "number"
               THEN PairItem(timestamp.n, supply_value.n)
               ELSE BadItem

\* response.json() as fetch_icp_supply_data sees it
AsFetched(response) ==
    IF response.shape = "list"
    THEN [kind |-> "list",
          items |-> [i \in 1..Len(response.series) |-> AsItem(response.series[i])]]
    ELSE [kind |-> "object", items |-> <<>>]

NoConsumer == "none"

ProcessorInit ==
    /\ api_response \in ApiResponses
    /\ zone \in SteadyZones
    /\ processed = [fn |-> NoConsumer, result |-> <<>>]
    /\ debug_log = <<>>
    /\ date_args = NotRun /\ date_result = NotRun
    /\ RefreshOff /\ EnsembleOff /\ TrendOff /\ PredictorOff

\* ICPDataProcessor.process_total_supply_series(api_response)
CallProcessTotalSupplySeries ==
    /\ processed.fn = NoConsumer
    /\ \E outcome \in ProcessTotalSupplySeries(zone, api_response) :
         /\ processed' = [fn |-> "process_total_supply_series", result |-> outcome.result]
         /\ debug_log' = outcome.printed
    /\ UNCHANGED api_response
    /\ UNCHANGED <<refreshVars, ensembleVars, trendVars, dateVars, predictorVars>>

\* ICPDataRetriever.fetch_icp_supply_data on the same decoded response
CallFetchIcpSupplyData ==
    /\ processed.fn = NoConsumer
    /\ \E df \in FetchIcpSupplyData(AsFetched(api_response)) :
         processed' = [fn |-> "fetch_icp_supply_data", result |-> df]
    /\ UNCHANGED <<api_response, debug_log>>
    /\ UNCHANGED <<refreshVars, ensembleVars, trendVars, dateVars, predictorVars>>

ProcessorNext ==
    \/ CallProcessTotalSupplySeries
    \/ CallFetchIcpSupplyData

ProcessorSpec == ProcessorInit /\ [][ProcessorNext]_vars

(* ------------------------------------------------------------------ *)
(* Properties of the consumers of an upstream response                  *)
(* ------------------------------------------------------------------ *)
\* a data point with a timestamp and a value that both convert
WellFormed(data_point) ==
    /\ data_point.shape \in {"list", "dict"}
    /\ data_point.timestamp.kind = "number"
    /\ data_point.supply_value.kind = "number"

\* the number of rows of df holding the timestamp and value of data_point
RowsOf(df, data_point) ==
    Cardinality({i \in 1..Len(df) :
        /\ df[i].timestamp = data_point.timestamp.n
        /\ df[i].total_supply = data_point.supply_value.n})

\* the number of data points of series_data equal to data_point
Occurrences(series_data, data_point) ==
    Cardinality({i \in 1..Len(series_data) : series_data[i] = data_point})

Processed == processed.fn = "process_total_supply_series"
Fetched == processed.fn = "fetch_icp_supply_data"

\* C18: process_total_supply_series raises ValueError for a response of another
\* shape or without a well-formed point; otherwise it returns one row per
\* well-formed point and has printed one line for every malformed point
C18_MalformedPointsSkipped ==
    Processed =>
        LET series_data == api_response.series
            wellFormed == SelectSeq(series_data, WellFormed)
            malformed == SelectSeq(series_data, LAMBDA p : ~WellFormed(p))
        IN  IF api_response.shape = "other" \/ wellFormed = <<>>
            THEN processed.result.raised = "ValueError"
            ELSE /\ processed.result.raised = "none"
                 /\ Len(processed.result.value) = Len(wellFormed)
                 /\ \A i \in 1..Len(wellFormed) :
                        RowsOf(processed.result.value, wellFormed[i]) >= 1
                 /\ [i \in 1..Len(debug_log) |-> debug_log[i].data_point] = malformed

\* the response holding the same data points in the other accepted shape
OtherShape(response) ==
    ApiResponse(IF response.shape = "list" THEN "dict with series" ELSE "list",
                response.series)

\* C19: what either consumer makes of a list of data points it makes of the
\* object holding that list as its series, and the other way round
C19_BothShapesAccepted ==
    /\ (Processed /\ api_response.shape # "other") =>
           \E outcome \in ProcessTotalSupplySeries(zone, OtherShape(api_response)) :
               outcome = Outcome(processed.result, debug_log)
    /\ (Fetched /\ api_response.shape # "other") =>
           \E df \in FetchIcpSupplyData(AsFetched(OtherShape(api_response))) :
               df.none = processed.result.none /\ df.rows = processed.result.rows

\* ---------------------------------------------------------------------------
\* The trend maps and the four predictors on one loaded series
\* (app.py load_and_process_data, streamlit_utils.py calculate_all_trends,
\* prediction_models.py). Time is counted in days since 1970-01-01, so
\* date_numeric of a row is its day number; supply changes stay in e8s.
\* Numbers that need not be whole are fractions <<n, d>> in lowest terms.
\* ---------------------------------------------------------------------------

RatNeg(a) == <<0 - a[1], a[2]>>

RatAdd(a, b) ==
    LET g == Gcd(a[2], b[2])
    IN  Frac(a[1] * (b[2] \div g) + b[1] * (a[2] \div g), (a[2] \div g) * b[2])

RatSub(a, b) == RatAdd(a, RatNeg(b))

RatMul(a, b) ==
    LET g1 == Gcd(Abs(a[1]), b[2])
        g2 == Gcd(Abs(b[1]), a[2])
    IN  Frac((a[1] \div g1) * (b[1] \div g2), (a[2] \div g2) * (b[2] \div g1))

\* a / b, b not zero
RatDiv(a, b) ==
    RatMul(a, IF b[1] > 0 THEN <<b[2], b[1]>> ELSE <<0 - b[2], 0 - b[1]>>)

Sign(x) == IF x > 0 THEN 1 ELSE IF x < 0 THEN 0 - 1 ELSE 0

RatLess(a, b) == RatSub(a, b)[1] < 0

\* the whole part of the square root of r, found by halving lo..hi; the
\* square of 46340 is the largest below 2^31
RECURSIVE IsqrtBetween(_, _, _)
IsqrtBetween(r, lo, hi) ==
    IF lo = hi THEN lo
    ELSE LET mid == (lo + hi + 1) \div 2
         IN  IF mid * mid <= r THEN IsqrtBetween(r, mid, hi)
             ELSE IsqrtBetween(r, lo, mid - 1)

Isqrt(r) == IsqrtBetween(r, 0, IF r < 46340 THEN r ELSE 46340)

\* the sign of p + s * sqrt(r), for s = 1 or s = -1 and r >= 0
SurdSign(p, s, r) ==
    LET q == Isqrt(r)
    IN  IF p > q THEN 1
        ELSE IF p < 0 - q THEN 0 - 1
        ELSE IF s = 1 THEN (IF p >= 0 THEN Sign(p + r) ELSE Sign(r - p * p))
        ELSE (IF p <= 0 THEN 0 - Sign(r - p) ELSE Sign(p * p - r))

\* a number (num + sgn * sqrt(rad)) / den with den > 0: the fractions and the
\* roots of a quadratic with whole coefficients
Surd(num, sgn, rad, den) ==
    IF den > 0 THEN [num |-> num, sgn |-> sgn, rad |-> rad, den |-> den]
    ELSE [num |-> 0 - num, sgn |-> 0 - sgn, rad |-> rad, den |-> 0 - den]

FromRat(a) == Surd(a[1], 1, 0, a[2])

\* the sign of t - k, for a whole number k
SurdSignAbove(t, k) ==
    IF t.rad = 0
    THEN IF t.num \div t.den > k THEN 1
         ELSE IF t.num \div t.den < k THEN 0 - 1
         ELSE Sign(t.num % t.den)
    ELSE SurdSign(t.num - k * t.den, t.sgn, t.rad)

\* t < u, for two numbers over the same radicand and denominator
SurdLess(t, u) ==
    IF t.sgn = u.sgn THEN t.num < u.num
    ELSE SurdSign(t.num - u.num, t.sgn, 4 * t.rad) < 0

\* the last whole day a pd.Timestamp and a pd.Timedelta can hold
MaxDays == TimestampMax \div MinutesPerDay

\* a Timestamp or Timedelta of t days cannot be built (OutOfBoundsDatetime,
\* OverflowError), to the day
OutOfBounds(t) == SurdSignAbove(t, MaxDays) > 0 \/ SurdSignAbove(t, 0 - MaxDays) < 0

\* the calendar of 1970 and 1971, the years of the series of this model
\* (neither is a leap year)
MonthStarts == <<0, 31, 59, 90, 120, 151, 181, 212, 243, 273, 304, 334>>
YearOfDay(d) == 1970 + d \div 365
MonthOfDay(d) == Cardinality({m \in 1..12 : MonthStarts[m] <= d % 365})

\* dt.to_period('M'), dt.to_period('Q'), dt.to_period('Y'): periods are
\* numbered so that a later period has a larger number
ToPeriod(freq, d) ==
    CASE freq = "M" -> YearOfDay(d) * 12 + (MonthOfDay(d) - 1)
      [] freq = "Q" -> YearOfDay(d) * 4 + (MonthOfDay(d) - 1) \div 3
      [] freq = "Y" -> YearOfDay(d)

\* the series: daily records from day first on, n of them, whose supply change
\* j days after the last record (j = 0 for the last record, j < 0 before it)
\* is c0 + c1 * max(j, kink) + c2 * j * (j + 1) / 2, plus step from day at
\* on. kink = NoKink: no constant start
NoKink == 0 - 1000
FirstDays == {335, 336}
ShortLengths == {9, 32, 33, 38, 39, 40}
LongLengths == {95}
Shape(c0, c1, c2, step, at, kink) ==
    [c0 |-> c0, c1 |-> c1, c2 |-> c2, step |-> step, at |-> at, kink |-> kink]
ShortShapes ==
    {Shape(60, 0 - 1, 0, 0, 0, NoKink),        \* falling, above zero
     Shape(100, 1, 0, 0, 0, NoKink),           \* rising
     Shape(60, 0, 0, 0, 0, NoKink),            \* constant
     Shape(0 - 40, 0 - 1, 0, 0, 0, NoKink),    \* falling, below zero
     Shape(0 - 40, 1, 0, 0, 0, NoKink),        \* rising, below zero
     Shape(60, 0 - 1, 0 - 1, 0, 0, NoKink),    \* falling faster and faster
     Shape(0 - 40, 0, 0 - 1, 0, 0, NoKink),    \* below zero, falling faster
     Shape(60, 0 - 3, 1, 0, 0, NoKink),        \* falling more and more slowly
     Shape(0 - 200, 0, 1, 0, 0, NoKink),       \* below zero, falling more slowly
     Shape(0 - 10, 10, 0 - 1, 0, 0, NoKink),   \* below zero, rising more slowly
     Shape(0 - 40, 0, 0, 0 - 1, 0 - 28, NoKink), \* one step down, below zero
     Shape(0 - 20, 0 - 1, 0, 1, 0 - 29, NoKink)} \* falling with one step up
LongShapes ==
    {Shape(60, 0 - 1, 0, 0, 0, NoKink),
     Shape(60, 0 - 1, 0, 0, 0, 0 - 40),        \* constant, then falling
     Shape(100, 1, 0, 0, 0, 0 - 40)}           \* constant, then rising

SupplyChangeOn(sh, j) ==
    sh.c0 + sh.c1 * Max({j, sh.kink}) + sh.c2 * ((j * (j + 1)) \div 2)
        + (IF j >= sh.at THEN sh.step ELSE 0)

\* the rows of a snapshot with these supply changes, with the columns
\* load_and_process_data adds (app.py:88-98); the total supply was 100000
\* before the first of them
RECURSIVE SumShape(_, _, _)
SumShape(sh, lo, hi) ==
    IF lo > hi THEN 0
    ELSE IF lo = hi THEN SupplyChangeOn(sh, lo)
    ELSE LET mid == (lo + hi) \div 2
         IN  SumShape(sh, lo, mid) + SumShape(sh, mid + 1, hi)

ShapeRows(first, n, sh) ==
    AddAverages(DropNa(
        [k \in 1..n |->
            Row((first + k - 1) * Day,
                100000 + SumShape(sh, 1 - n, k - n),
                Num(SupplyChangeOn(sh, k - n)),
                Frac(0, 1))]))

\* a frame: its rows with the columns of load_and_process_data, and the
\* columns added since, each a sequence as long as the frame
BaseColumns ==
    {"date", "timestamp", "total_supply", "supply_change", "supply_change_pct",
     "change_7d_avg", "change_30d_avg", "date_dt", "date_numeric"}
NoColumns == [c \in {} |-> <<>>]
NewFrame(rows) == [rows |-> rows, added |-> NoColumns]
Columns(df) == BaseColumns \cup DOMAIN df.added

\* df[name] = values
SetColumn(df, name, values) ==
    [df EXCEPT !.added =
        [c \in DOMAIN df.added \cup {name} |->
            IF c = name THEN values ELSE df.added[c]]]

\* df['date_dt'].dt.to_period(freq)
PeriodColumn(df, freq) == [i \in 1..Len(df.rows) |-> ToPeriod(freq, df.rows[i].date)]

\* stats.linregress(x, y) on distinct days x and on the values y[i] / den:
\* slope = Sxy / Sxx, intercept = mean(y) - slope * mean(x), r = Sxy /
\* sqrt(Sxx * Syy) and r = 0 when y is constant. The sums of products are
\* taken about the first point, which leaves them as they are about the means.
\* r ** 2 is kept as its two factors Sxy / Sxx and Sxy / Syy
RSquared(p, q) == [p |-> p, q |-> q]
LinregressDays(x, y, den) ==
    LET n == Len(x)
        u == [i \in 1..n |-> x[i] - x[1]]
        v == [i \in 1..n |-> y[i] - y[1]]
        su == SumTo(u, n)
        sv == SumTo(v, n)
        Sxy == SumTo([i \in 1..n |-> (n * u[i] - su) * v[i]], n)
        Sxx == SumTo([i \in 1..n |-> (n * u[i] - su) * u[i]], n)
        Syy == SumTo([i \in 1..n |-> (n * v[i] - sv) * v[i]], n)
        slope == RatDiv(Frac(Sxy, Sxx), <<den, 1>>)
        mean_x == Frac(SumTo(x, n), n)
        mean_y == Frac(SumTo(y, n), n * den)
    IN  [slope |-> slope,
         intercept |-> RatSub(mean_y, RatMul(slope, mean_x)),
         r_squared |-> IF Syy = 0 THEN RSquared(<<0, 1>>, <<0, 1>>)
                       ELSE RSquared(Frac(Sxy, Sxx), Frac(Sxy, Syy))]

\* two r ** 2 values are the same number
SameRSquared(a, b) ==
    IF a.p[1] = 0 \/ a.q[1] = 0 \/ b.p[1] = 0 \/ b.q[1] = 0
    THEN (a.p[1] = 0 \/ a.q[1] = 0) /\ (b.p[1] = 0 \/ b.q[1] = 0)
    ELSE RatDiv(a.p, b.p) = RatDiv(b.q, a.q)

\* dropna(subset=['supply_change', 'date_numeric'])
ValidRows(rows) == SelectSeq(rows, LAMBDA r : r.supply_change # NaN)

FitRows(rows) ==
    LinregressDays([i \in 1..Len(rows) |-> rows[i].date],
                   [i \in 1..Len(rows) |-> rows[i].supply_change[1]], 1)

\* valid_data and the overall trend (app.py:101-102)
OverallTrend(df) == FitRows(ValidRows(df.rows))

\* a quarter needs eleven records
MinimumRecordsLateQuarter(freq) ==
    CASE freq = "M" -> 3
      [] freq = "Q" -> 11
      [] freq = "Y" -> 30

\* the least number of rows, and of valid rows, a month, a quarter and a year
\* must have to get a trend
MinimumRecords(freq) ==
    CASE freq = "M" -> 3
      [] freq = "Q" -> 10
      [] freq = "Y" -> 30

\* the rows of the frame whose period is the given one
PeriodRows(df, freq, period) ==
    SelectSeq(df.rows, LAMBDA r : ToPeriod(freq, r.date) = period)

\* the loop over the periods of the frame: a period with fewer than minimum
\* rows, or fewer than minimum valid rows, is passed over; the others get the
\* trend of their valid rows
PeriodTrends(df, freq, minimum) ==
    LET periods == {ToPeriod(freq, df.rows[i].date) : i \in 1..Len(df.rows)}
        kept == {p \in periods :
                    /\ ~(Len(PeriodRows(df, freq, p)) < minimum)
                    /\ ~(Len(ValidRows(PeriodRows(df, freq, p))) < minimum)}
    IN  [p \in kept |->
            LET fit == FitRows(ValidRows(PeriodRows(df, freq, p)))
            IN  [x |-> [i \in 1..Len(ValidRows(PeriodRows(df, freq, p))) |->
                           ValidRows(PeriodRows(df, freq, p))[i].date],
                 slope |-> fit.slope,
                 r_squared |-> fit.r_squared]]

NoPredictorCall == [fn |-> "none"]
NotCalculated == "not calculated"

PredictorInit ==
    /\ \E first \in FirstDays :
           \/ \E n \in ShortLengths, sh \in ShortShapes :
                  df_adj_sorted = NewFrame(ShapeRows(first, n, sh))
           \/ \E n \in LongLengths, sh \in LongShapes :
                  df_adj_sorted = NewFrame(ShapeRows(first, n, sh))
    /\ quarterly_trends = NotCalculated
    /\ period_trends = NotCalculated
    /\ pcall = NoPredictorCall
    /\ RefreshOff /\ EnsembleOff /\ TrendOff /\ DateOff /\ ProcessorOff

\* load_and_process_data, from "Calculate quarterly trends" on (app.py:105-137)
CalculateQuarterlyTrends ==
    /\ "year_quarter" \notin Columns(df_adj_sorted)
    /\ df_adj_sorted' = SetColumn(df_adj_sorted, "year_quarter", PeriodColumn(df_adj_sorted, "Q"))
    /\ quarterly_trends' = PeriodTrends(df_adj_sorted, "Q", MinimumRecords("Q"))
    /\ UNCHANGED <<period_trends, pcall>>
    /\ UNCHANGED <<refreshVars, ensembleVars, trendVars, dateVars, processorVars>>

\* calculate_all_trends(df_adj_sorted, valid_data, slope, intercept, r_value)
CalculateAllTrends ==
    /\ "year_quarter" \in Columns(df_adj_sorted)
    /\ "year" \notin Columns(df_adj_sorted)
    /\ df_adj_sorted' =
           SetColumn(SetColumn(df_adj_sorted, "year_month", PeriodColumn(df_adj_sorted, "M")),
                     "year", PeriodColumn(df_adj_sorted, "Y"))
    /\ period_trends' =
           [monthly_trends |-> PeriodTrends(df_adj_sorted, "M", MinimumRecords("M")),
            yearly_trends |-> PeriodTrends(df_adj_sorted, "Y", MinimumRecords("Y")),
            full_trend |-> [slope |-> OverallTrend(df_adj_sorted).slope,
                            r_squared |-> OverallTrend(df_adj_sorted).r_squared]]
    /\ UNCHANGED <<quarterly_trends, pcall>>
    /\ UNCHANGED <<refreshVars, ensembleVars, trendVars, dateVars, processorVars>>

\* what a predictor gives back: (result, message), or an exception
NoResult == [none |-> TRUE]
Returning(result, msg) == [kind |-> "returned", result |-> result, msg |-> msg]
Raising == [kind |-> "raised", result |-> NoResult, msg |-> ""]

\* pd.to_datetime(zero_timestamp, unit='s') for a crossing after x days, and
\* what the predictor then returns
AtDatetime(x, result(_)) ==
    IF OutOfBounds(FromRat(x)) THEN Raising ELSE Returning(result(FromRat(x)), "Success")

\* predict_zero_crossing_linear(slope, intercept, current_date_numeric)
PredictZeroCrossingLinearExact(slope, intercept) ==
    IF slope[1] >= 0 THEN Returning(NoResult, "Slope is positive or zero")
    ELSE AtDatetime(RatDiv(RatNeg(intercept), slope), LAMBDA zero_date : zero_date)

\* the prediction taken from the earliest quarter of the map
PredictZeroFromEarliestTrend(trends, df) ==
    IF DOMAIN trends = {} THEN {Returning(NoResult, "No quarterly trends available")}
    ELSE LET latest_period == Min(DOMAIN trends)
             latest_trend == trends[latest_period]
             quarter_data == ValidRows(PeriodRows(df, "Q", latest_period))
             last == quarter_data[Len(quarter_data)]
             intercept == RatSub(last.supply_change \o <<1>>,
                                 RatMul(latest_trend.slope, <<last.date, 1>>))
             zero_timestamp == RatDiv(RatNeg(intercept), latest_trend.slope)
         IN  IF latest_trend.slope[1] >= 0
             THEN {Returning(NoResult, "Supply change is increasing")}
             ELSE {AtDatetime(zero_timestamp, LAMBDA zero_date :
                       [zero_date |-> zero_date,
                        days_from_last_observation |->
                            RatSub(zero_timestamp, <<last.date, 1>>)[1]
                                \div RatSub(zero_timestamp, <<last.date, 1>>)[2],
                        latest_period |-> latest_period,
                        slope |-> latest_trend.slope,
                        intercept |-> intercept,
                        r_squared |-> latest_trend.r_squared,
                        last_observation_date |-> last.date,
                        last_supply_change |-> last.supply_change])}

\* predict_zero_from_recent_trend(quarterly_trends, df_adj_sorted): one outcome
\* for every order sort_values('date_dt') may give the quarter's rows
PredictZeroFromRecentTrend(trends, df) ==
    IF DOMAIN trends = {} THEN {Returning(NoResult, "No quarterly trends available")}
    ELSE LET latest_period == Max(DOMAIN trends)
             latest_trend == trends[latest_period]
             of_quarter == {i \in 1..Len(df.rows) : df.added["year_quarter"][i] = latest_period}
             quarter_data == ValidRows(SelectSeq(df.rows, LAMBDA r :
                                 \E i \in of_quarter : df.rows[i] = r))
         IN  IF latest_trend.slope[1] >= 0
             THEN {Returning(NoResult, "Supply change is increasing")}
             ELSE IF Len(quarter_data) = 0
             THEN {Returning(NoResult, "No valid data for recent quarter")}
             ELSE {LET last == sorted[Len(sorted)]
                       slope == latest_trend.slope
                       intercept == RatSub(last.supply_change \o <<1>>,
                                           RatMul(slope, <<last.date, 1>>))
                       zero_timestamp == RatDiv(RatNeg(intercept), slope)
                   IN  AtDatetime(zero_timestamp, LAMBDA zero_date :
                           [zero_date |-> zero_date,
                            days_from_last_observation |->
                                RatSub(zero_timestamp, <<last.date, 1>>)[1]
                                    \div RatSub(zero_timestamp, <<last.date, 1>>)[2],
                            latest_period |-> latest_period,
                            slope |-> slope,
                            intercept |-> intercept,
                            r_squared |-> latest_trend.r_squared,
                            last_observation_date |-> last.date,
                            last_supply_change |-> last.supply_change])
                   : sorted \in SortValuesDate(quarter_data)}

\* the moving average trend over the last three windows of records
PredictZeroFromMovingAverageWide(df, window) ==
    LET recent_data == TailRows(df.rows, window * 3)
        valid_recent == SelectSeq(recent_data, LAMBDA r : r.change_30d_avg # NaN)
        fit == LinregressDays(
                   [i \in 1..Len(valid_recent) |-> valid_recent[i].date],
                   [i \in 1..Len(valid_recent) |->
                       valid_recent[i].change_30d_avg[1]
                           * (LongWindow \div valid_recent[i].change_30d_avg[2])],
                   LongWindow)
    IN  IF Len(valid_recent) < MinValidRecent
        THEN Returning(NoResult, "Insufficient data for moving average trend")
        ELSE IF fit.slope[1] >= 0
        THEN Returning(NoResult, "Moving average trend is positive")
        ELSE AtDatetime(RatDiv(RatNeg(fit.intercept), fit.slope), LAMBDA zero_date :
                 [zero_date |-> zero_date,
                  slope |-> fit.slope,
                  r_squared |-> fit.r_squared,
                  method |-> "moving_average"])

\* predict_zero_from_moving_average(df_adj_sorted, window): the averages are
\* taken over their common denominator, LongWindow
PredictZeroFromMovingAverageExact(df, window) ==
    LET recent_data == TailRows(df.rows, window * 2)
        valid_recent == SelectSeq(recent_data, LAMBDA r : r.change_30d_avg # NaN)
        fit == LinregressDays(
                   [i \in 1..Len(valid_recent) |-> valid_recent[i].date],
                   [i \in 1..Len(valid_recent) |->
                       valid_recent[i].change_30d_avg[1]
                           * (LongWindow \div valid_recent[i].change_30d_avg[2])],
                   LongWindow)
    IN  IF Len(valid_recent) < MinValidRecent
        THEN Returning(NoResult, "Insufficient data for moving average trend")
        ELSE IF fit.slope[1] >= 0
        THEN Returning(NoResult, "Moving average trend is positive")
        ELSE AtDatetime(RatDiv(RatNeg(fit.intercept), fit.slope), LAMBDA zero_date :
                 [zero_date |-> zero_date,
                  slope |-> fit.slope,
                  r_squared |-> fit.r_squared,
                  method |-> "moving_average"])

\* 2 * np.gradient(f) on whole numbers f: one-sided differences at the two
\* ends, central differences between them
GradientTwice(f) ==
    [i \in 1..Len(f) |->
        IF i = 1 THEN 2 * (f[2] - f[1])
        ELSE IF i = Len(f) THEN 2 * (f[i] - f[i - 1])
        ELSE f[i + 1] - f[i - 1]]

\* the column np.gradient gives for a column of fractions over den, as the
\* sequence of its values
GradientColumn(column, den) ==
    LET twice == GradientTwice([i \in 1..Len(column) |->
                                   column[i][1] * (den \div column[i][2])] \o <<>>)
    IN  [i \in 1..Len(column) |-> Frac(twice[i], 2 * den)] \o <<>>

\* the sum of a column of fractions over den, times den
SumOverDen(column, den) ==
    SumTo([i \in 1..Len(column) |-> column[i][1] * (den \div column[i][2])],
          Len(column))

\* the frame with the two columns predict_zero_with_acceleration adds when
\* they are not there (prediction_models.py:95-99)
WithDerivatives(df) ==
    LET first == IF "supply_change_derivative" \in Columns(df) THEN df
                 ELSE SetColumn(df, "supply_change_derivative",
                          GradientColumn([i \in 1..Len(df.rows) |->
                                             df.rows[i].supply_change \o <<1>>], 1))
    IN  IF "acceleration" \in Columns(first) THEN first
        ELSE SetColumn(first, "acceleration",
                 GradientColumn(first.added["supply_change_derivative"], 2))

\* the days of tail(30) and the smallest acceleration taken as one, in e8s a
\* day a day (1e-10 tokens)
RecentDays == 30
Epsilon == <<1, 100>>

\* last_date + pd.Timedelta(days=days_to_zero), and what is returned with it
AfterDays(last_date, days_to_zero, result(_)) ==
    IF OutOfBounds(days_to_zero) THEN Raising
    ELSE LET zero_date == [days_to_zero EXCEPT !.num = @ + last_date * days_to_zero.den]
         IN  IF OutOfBounds(zero_date) THEN Raising
             ELSE Returning(result(zero_date), "Success")

\* the recent rows of the frame with its two derivative columns
\* (prediction_models.py:102-109): their number m, the sums C, B and A of the
\* change, twice the speed and four times the acceleration over them, and the
\* date of the last row
RecentSums(after) ==
    LET recent == TailRows(after.rows, RecentDays)
    IN  [m |-> Len(recent),
         C |-> SumTo([i \in 1..Len(recent) |-> recent[i].supply_change[1]], Len(recent)),
         B |-> SumOverDen(TailRows(after.added["supply_change_derivative"], RecentDays), 2),
         A |-> SumOverDen(TailRows(after.added["acceleration"], RecentDays), 4),
         last_date |-> after.rows[Len(after.rows)].date]

\* the latest of the positive solutions
MaxSolution(valid_solutions) ==
    CHOOSE t \in valid_solutions : \A u \in valid_solutions : ~SurdLess(t, u)

\* min(valid_solutions) (prediction_models.py:165)
MinSolution(valid_solutions) ==
    CHOOSE t \in valid_solutions : \A u \in valid_solutions : ~SurdLess(u, t)

\* what predict_zero_with_acceleration returns from the recent rows
\* (prediction_models.py:105-176). The quadratic
\* change + speed * t + 0.5 * accel * t^2 = 0 is A t^2 + 4 B t + 8 C = 0 and
\* its roots are (-2 B +- sqrt(4 B^2 - 8 A C)) / A
RecentModel(sums) ==
    LET recent_change == Frac(sums.C, sums.m)
        recent_speed == Frac(sums.B, 2 * sums.m)
        recent_accel == Frac(sums.A, 4 * sums.m)
        linear_days == FromRat(RatDiv(RatNeg(recent_change), recent_speed))
        discriminant == 4 * sums.B * sums.B - 8 * sums.A * sums.C
        t1 == Surd(0 - 2 * sums.B, 1, discriminant, sums.A)
        t2 == Surd(0 - 2 * sums.B, 0 - 1, discriminant, sums.A)
        valid_solutions == {t \in {t1, t2} : SurdSign(t.num, t.sgn, t.rad) > 0}
    IN  IF recent_change[1] > 0 /\ recent_speed[1] >= 0
        THEN Returning(NoResult, "Supply change is positive and increasing")
        ELSE IF recent_change[1] > 0 /\ recent_speed[1] < 0
        THEN AfterDays(sums.last_date, linear_days, LAMBDA zero_date :
                 [zero_date |-> zero_date, method |-> "linear_speed",
                  recent_change |-> recent_change, recent_speed |-> recent_speed])
        ELSE IF RatLess(<<Abs(recent_accel[1]), recent_accel[2]>>, Epsilon)
        THEN IF recent_speed[1] >= 0
             THEN Returning(NoResult, "Speed is not negative")
             ELSE AfterDays(sums.last_date, linear_days, LAMBDA zero_date :
                      [zero_date |-> zero_date, method |-> "acceleration_linear",
                       recent_change |-> recent_change, recent_speed |-> recent_speed,
                       recent_accel |-> recent_accel])
        ELSE IF discriminant < 0
        THEN Returning(NoResult, "No real solution for quadratic equation")
        ELSE IF valid_solutions = {}
        THEN Returning(NoResult, "No positive solution found")
        ELSE AfterDays(sums.last_date, MinSolution(valid_solutions), LAMBDA zero_date :
                 [zero_date |-> zero_date, method |-> "acceleration_quadratic",
                  recent_change |-> recent_change, recent_speed |-> recent_speed,
                  recent_accel |-> recent_accel,
                  days_to_zero |-> MinSolution(valid_solutions)])

\* the result and the frame left, given the frame with its derivative columns
WithRecentModel(after) == [ret |-> RecentModel(RecentSums(after)), df |-> after]

\* predict_zero_with_acceleration(df_adj_sorted): what it gives back (ret) and
\* the frame it leaves (df); np.gradient raises on fewer than two rows
PredictZeroWithAcceleration(df) ==
    IF Len(df.rows) < 2 /\ ~({"supply_change_derivative", "acceleration"} \subseteq Columns(df))
    THEN [ret |-> Raising, df |-> df]
    ELSE WithRecentModel(WithDerivatives(df))

\* a predictor gave a result the ensemble takes up
Took(ret) == ret.kind = "returned" /\ ret.result # NoResult

\* the r_squared written into methods_info['linear'] (prediction_models.py:190)
NotebookRSquared == RSquared(<<1, 250>>, <<1, 1>>)

\* what ensemble_zero_prediction gathers from the returns of its four methods
\* (prediction_models.py:186-232)
Gathered(linear_ret, quarterly_ret, ma_ret, accel, slope) ==
    LET methods == {m \in {"linear", "quarterly", "moving_average", "acceleration"} :
                        Took(CASE m = "linear" -> linear_ret
                               [] m = "quarterly" -> quarterly_ret
                               [] m = "moving_average" -> ma_ret
                               [] m = "acceleration" -> accel.ret)}
    IN  [predictions |->
             [m \in methods |->
                 CASE m = "linear" -> linear_ret.result
                   [] m = "quarterly" -> quarterly_ret.result.zero_date
                   [] m = "moving_average" -> ma_ret.result.zero_date
                   [] m = "acceleration" -> accel.ret.result.zero_date],
         methods_info |->
             [m \in methods |->
                 CASE m = "linear" ->
                          [slope |-> slope, r_squared |-> NotebookRSquared]
                   [] m = "quarterly" ->
                          [slope |-> quarterly_ret.result.slope,
                           r_squared |-> quarterly_ret.result.r_squared,
                           latest_period |-> quarterly_ret.result.latest_period]
                   [] m = "moving_average" ->
                          [slope |-> ma_ret.result.slope,
                           r_squared |-> ma_ret.result.r_squared]
                   [] m = "acceleration" ->
                          [method |-> accel.ret.result.method]],
         df |-> accel.df]

\* ensemble_zero_prediction(df_adj_sorted, quarterly_trends, slope, intercept,
\* valid_data): the four methods in turn, each inside try/except; one outcome
\* for every outcome of the quarterly method
EnsembleZeroPrediction(df, trends, slope, intercept) ==
    {Gathered(PredictZeroCrossingLinearExact(slope, intercept),
              quarterly_ret,
              PredictZeroFromMovingAverageExact(df, LongWindow),
              PredictZeroWithAcceleration(df),
              slope)
     : quarterly_ret \in PredictZeroFromRecentTrend(trends, df)}

\* a call of a predictor on the loaded frame: what it was given, what it gave
\* back, and the frame and the trend map it left
PredictorCall(fn, ret, left) ==
    [fn |-> fn, given |-> df_adj_sorted, given_trends |-> quarterly_trends,
     ret |-> ret, left |-> left, left_trends |-> quarterly_trends]

Callable == "year_quarter" \in Columns(df_adj_sorted) /\ pcall = NoPredictorCall

CallPredictZeroCrossingLinear ==
    /\ Callable
    /\ \E fit \in {OverallTrend(df_adj_sorted)} :
           pcall' = PredictorCall("linear",
                        PredictZeroCrossingLinearExact(fit.slope, fit.intercept),
                        df_adj_sorted)
    /\ UNCHANGED <<df_adj_sorted, quarterly_trends, period_trends>>
    /\ UNCHANGED <<refreshVars, ensembleVars, trendVars, dateVars, processorVars>>

CallPredictZeroFromRecentTrend ==
    /\ Callable
    /\ \E ret \in PredictZeroFromRecentTrend(quarterly_trends, df_adj_sorted) :
           pcall' = PredictorCall("quarterly", ret, df_adj_sorted)
    /\ UNCHANGED <<df_adj_sorted, quarterly_trends, period_trends>>
    /\ UNCHANGED <<refreshVars, ensembleVars, trendVars, dateVars, processorVars>>

CallPredictZeroFromMovingAverage ==
    /\ Callable
    /\ pcall' = PredictorCall("moving_average",
                    PredictZeroFromMovingAverageExact(df_adj_sorted, LongWindow),
                    df_adj_sorted)
    /\ UNCHANGED <<df_adj_sorted, quarterly_trends, period_trends>>
    /\ UNCHANGED <<refreshVars, ensembleVars, trendVars, dateVars, processorVars>>

CallPredictZeroWithAcceleration ==
    /\ Callable
    /\ \E out \in {PredictZeroWithAcceleration(df_adj_sorted)} :
           /\ pcall' = PredictorCall("acceleration", out.ret, out.df)
           /\ df_adj_sorted' = out.df
    /\ UNCHANGED <<quarterly_trends, period_trends>>
    /\ UNCHANGED <<refreshVars, ensembleVars, trendVars, dateVars, processorVars>>

\* show_ensemble_predictions: ensemble_zero_prediction on what
\* load_and_process_data returned (app.py:255-257)
CallEnsembleZeroPrediction ==
    /\ Callable
    /\ \E fit \in {OverallTrend(df_adj_sorted)} :
       \E out \in EnsembleZeroPrediction(df_adj_sorted, quarterly_trends,
                      fit.slope, fit.intercept) :
           /\ pcall' = PredictorCall("ensemble",
                           Returning([predictions |-> out.predictions,
                                      methods_info |-> out.methods_info], ""),
                           out.df)
           /\ df_adj_sorted' = out.df
    /\ UNCHANGED <<quarterly_trends, period_trends>>
    /\ UNCHANGED <<refreshVars, ensembleVars, trendVars, dateVars, processorVars>>


PredictorNext ==
    \/ CalculateQuarterlyTrends
    \/ CalculateAllTrends
    \/ CallPredictZeroCrossingLinear
    \/ CallPredictZeroFromRecentTrend
    \/ CallPredictZeroFromMovingAverage
    \/ CallPredictZeroWithAcceleration
    \/ CallEnsembleZeroPrediction

PredictorSpec == PredictorInit /\ [][PredictorNext]_vars

\* the number of valid records of the frame in a period
ValidCount(df, freq, period) ==
    Cardinality({i \in 1..Len(df.rows) :
                    /\ ToPeriod(freq, df.rows[i].date) = period
                    /\ df.rows[i].supply_change # NaN})

\* the periods of the frame with at least `least` valid records
PeriodsWith(df, freq, least) ==
    {p \in {ToPeriod(freq, df.rows[i].date) : i \in 1..Len(df.rows)} :
        ValidCount(df, freq, p) >= least}

QuarterlyCalculated == "year_quarter" \in Columns(df_adj_sorted)
AllTrendsCalculated == "year" \in Columns(df_adj_sorted)

PredictorReturned == pcall # NoPredictorCall

\* C21: when a predictor or ensemble_zero_prediction has returned, the frame it
\* was given has the columns and the values it had before the call, and so has
\* the quarterly trend map
C21_PredictorsReadOnly ==
    PredictorReturned =>
        /\ Columns(pcall.left) = Columns(pcall.given)
        /\ pcall.left = pcall.given
        /\ pcall.left_trends = pcall.given_trends

\* the call made was of this predictor
Called(fn) == PredictorReturned /\ pcall.fn = fn

\* the predictor returned (None, message)
Failed == pcall.ret.kind = "returned" /\ pcall.ret.result = NoResult

\* the most recently dated quarter of the map the call was given, and the last
\* valid record of the frame in that quarter
LatestQuarter == CHOOSE p \in DOMAIN pcall.given_trends :
                     \A q \in DOMAIN pcall.given_trends : q <= p
LastOfLatestQuarter ==
    LET of_quarter == {i \in 1..Len(pcall.given.rows) :
                          /\ ToPeriod("Q", pcall.given.rows[i].date) = LatestQuarter
                          /\ pcall.given.rows[i].supply_change # NaN}
    IN  pcall.given.rows[Max(of_quarter)]

\* C23: predict_zero_from_recent_trend fails when the quarterly map is empty or
\* the slope of its latest quarter is >= 0; otherwise it predicts, with that
\* slope and the intercept lastY - slope * lastX, the crossing at
\* lastX - lastY / slope, (lastX, lastY) being the last valid record of that
\* quarter
C23_RecentTrendRebased ==
    Called("quarterly") =>
        IF DOMAIN pcall.given_trends = {} THEN Failed
        ELSE IF pcall.given_trends[LatestQuarter].slope[1] >= 0 THEN Failed
        ELSE LET slope == pcall.given_trends[LatestQuarter].slope
                 lastX == <<LastOfLatestQuarter.date, 1>>
                 lastY == <<LastOfLatestQuarter.supply_change[1], 1>>
             IN  /\ Took(pcall.ret)
                 /\ pcall.ret.result.slope = slope
                 /\ pcall.ret.result.intercept = RatSub(lastY, RatMul(slope, lastX))
                 /\ pcall.ret.result.zero_date = FromRat(RatSub(lastX, RatDiv(lastY, slope)))

\* a prediction from the latest quarter of the map, which the series has
\* records after
C23_Witness ==
    /\ Called("quarterly")
    /\ Took(pcall.ret)
    /\ pcall.ret.result.last_observation_date < pcall.given.rows[Len(pcall.given.rows)].date

\* the records the moving average trend is fitted to: of the 60 most recent
\* records of the frame the call was given, those with a 30-day average
RecentWithAverage ==
    {i \in 1..Len(pcall.given.rows) :
        /\ i > Len(pcall.given.rows) - 60
        /\ pcall.given.rows[i].change_30d_avg # NaN}

\* the least-squares line through the 30-day averages of those records
RecentAverageFit ==
    LET first == Min(RecentWithAverage)
        count == Cardinality(RecentWithAverage)
    IN  LinregressDays(
            [k \in 1..count |-> pcall.given.rows[first + k - 1].date],
            [k \in 1..count |->
                pcall.given.rows[first + k - 1].change_30d_avg[1]
                    * (30 \div pcall.given.rows[first + k - 1].change_30d_avg[2])],
            30)

RecentMean(column, den) ==
    Frac(SumOverDen(TailRows(column, 30), den), den * Len(TailRows(column, 30)))

\* the averaged change, speed and acceleration of the frame after a call of
\* predict_zero_with_acceleration
AveragedChange ==
    RecentMean([i \in 1..Len(pcall.left.rows) |-> pcall.left.rows[i].supply_change \o <<1>>], 1)
AveragedSpeed == RecentMean(pcall.left.added["supply_change_derivative"], 2)
AveragedAcceleration == RecentMean(pcall.left.added["acceleration"], 4)

\* the model predict_zero_with_acceleration went by
UsedLinearModel ==
    \/ Took(pcall.ret) /\ pcall.ret.result.method \in {"linear_speed", "acceleration_linear"}
    \/ Failed /\ pcall.ret.msg = "Speed is not negative"
UsedQuadraticModel ==
    \/ Took(pcall.ret) /\ pcall.ret.result.method = "acceleration_quadratic"
    \/ Failed /\ pcall.ret.msg \in {"No real solution for quadratic equation",
                                    "No positive solution found"}

\* C25: unless the averaged change is positive and the averaged speed is not
\* negative (the predictor then fails), predict_zero_with_acceleration goes by
\* the linear model exactly when |acceleration| < 1e-10 and by the quadratic
\* model otherwise, also when the change is positive and the speed negative
C25_ModelByAcceleration ==
    (/\ Called("acceleration")
     /\ pcall.ret.kind = "returned"
     /\ ~(AveragedChange[1] > 0 /\ AveragedSpeed[1] >= 0)) =>
        IF RatLess(<<Abs(AveragedAcceleration[1]), AveragedAcceleration[2]>>, <<1, 100>>)
        THEN UsedLinearModel
        ELSE UsedQuadraticModel

\* the quadratic case: the averaged change is not positive and the averaged
\* acceleration is not below epsilon
QuadraticCase ==
    /\ Called("acceleration")
    /\ pcall.ret.kind = "returned"
    /\ AveragedChange[1] <= 0
    /\ ~RatLess(<<Abs(AveragedAcceleration[1]), AveragedAcceleration[2]>>, <<1, 100>>)

\* t = (num + sgn * sqrt(rad)) / den is a root of a t^2 + b t + c: the part
\* with the square root and the part without it are both zero
IsRoot(t, a, b, c) ==
    /\ RatAdd(RatMul(a, <<2 * t.num, 1>>), RatMul(b, <<t.den, 1>>))[1] = 0
    /\ RatAdd(RatAdd(RatMul(a, <<t.num * t.num + t.rad, 1>>),
                     RatMul(b, <<t.num * t.den, 1>>)),
              RatMul(c, <<t.den * t.den, 1>>))[1] = 0

\* the other root of the quadratic t is a root of
OtherRoot(t) == [t EXCEPT !.sgn = 0 - t.sgn]

\* C26: in the quadratic case, with a = accel / 2, b = speed, c = change, the
\* predictor fails when b^2 - 4ac < 0 and when no root is above zero (the
\* roots being real, their product c / a is >= 0 and their sum -b / a is
\* <= 0); otherwise its days_to_zero is a root above zero, no other root
\* above zero is smaller, and the date is the last date of the series plus
\* days_to_zero
C26_SmallestPositiveRoot ==
    QuadraticCase =>
        LET a == RatMul(AveragedAcceleration, <<1, 2>>)
            b == AveragedSpeed
            c == AveragedChange
            discriminant == RatSub(RatMul(b, b), RatMul(<<4, 1>>, RatMul(a, c)))
            last_date == pcall.given.rows[Len(pcall.given.rows)].date
            t == pcall.ret.result.days_to_zero
        IN  IF discriminant[1] < 0
            THEN Failed /\ pcall.ret.msg = "No real solution for quadratic equation"
            ELSE IF c[1] * a[1] >= 0 /\ b[1] * a[1] >= 0
            THEN Failed /\ pcall.ret.msg = "No positive solution found"
            ELSE /\ Took(pcall.ret)
                 /\ pcall.ret.result.method = "acceleration_quadratic"
                 /\ IsRoot(t, a, b, c)
                 /\ SurdSignAbove(t, 0) > 0
                 /\ SurdSignAbove(OtherRoot(t), 0) > 0 => ~SurdLess(OtherRoot(t), t)
                 /\ pcall.ret.result.zero_date =
                        Surd(t.num + last_date * t.den, t.sgn, t.rad, t.den)

\* a prediction in the quadratic case with two different roots above zero
C26_Witness ==
    /\ QuadraticCase
    /\ Took(pcall.ret)
    /\ pcall.ret.result.days_to_zero.rad > 0
    /\ SurdSignAbove(OtherRoot(pcall.ret.result.days_to_zero), 0) > 0

\* the date a predictor gave, and the date of the last record of the series
\* it was given
PredictedDate == IF pcall.fn = "linear" THEN pcall.ret.result ELSE pcall.ret.result.zero_date
LastObservedDate == pcall.given.rows[Len(pcall.given.rows)].date

\* C27: a date given by the linear, the quarterly, the moving average or the
\* acceleration predictor (its linear branch for a change that is not positive
\* included) is later than the date of the last record of the series
C27_PredictionsAfterLastRecord ==
    (/\ PredictorReturned
     /\ pcall.fn \in {"linear", "quarterly", "moving_average", "acceleration"}
     /\ Took(pcall.ret)) =>
        SurdSignAbove(PredictedDate, LastObservedDate) > 0

\* the methods_info of a call of ensemble_zero_prediction
MethodsInfo == pcall.ret.result.methods_info

\* C30: for every method in the methods_info of the ensemble, the slope and
\* the r_squared reported are those of the fit the method used on the series:
\* the overall fit for the linear method, the fit of the latest quarter of the
\* map for the quarterly method, the fit of the recent 30-day averages for the
\* moving average method
C30_MethodsInfoFromFits ==
    Called("ensemble") =>
        /\ "linear" \in DOMAIN MethodsInfo =>
               /\ MethodsInfo["linear"].slope = OverallTrend(pcall.given).slope
               /\ SameRSquared(MethodsInfo["linear"].r_squared,
                               OverallTrend(pcall.given).r_squared)
        /\ "quarterly" \in DOMAIN MethodsInfo =>
               /\ MethodsInfo["quarterly"].slope = pcall.given_trends[LatestQuarter].slope
               /\ SameRSquared(MethodsInfo["quarterly"].r_squared,
                               FitRows(ValidRows(PeriodRows(pcall.given, "Q", LatestQuarter))).r_squared)
        /\ "moving_average" \in DOMAIN MethodsInfo =>
               /\ MethodsInfo["moving_average"].slope = RecentAverageFit.slope
               /\ SameRSquared(MethodsInfo["moving_average"].r_squared,
                               RecentAverageFit.r_squared)

====
